---- MODULE Spec2Model ----
(***************************************************************************)
(* A model of the time tracker client (src/src/App.js): the document store *)
(* it writes to (projects and timeEntries collections of one signed-in     *)
(* user), the asynchronous writes in flight, the snapshot listeners of     *)
(* App, the modal mechanism and the ProjectDetail view (clock state, edit  *)
(* form).                                                                  *)
(*                                                                         *)
(* The store is the external service, seen through its client SDK.  A      *)
(* write (addDoc / updateDoc / deleteDoc) takes effect in the client's     *)
(* view of the store when the handler issues it, or is rejected; its       *)
(* promise settles later, in the order the writes were issued, and the     *)
(* handler's continuation runs then.  Snapshot callbacks are delivered at  *)
(* any time after the store changed.  Instants are whole numbers of clock  *)
(* ticks; a local calendar date is a day number.                           *)
(***************************************************************************)
EXTENDS Integers, Sequences, FiniteSets, TLC

\* ---------------------------------------------------------------- bounds
MaxEntries == 2      \* document ids addDoc can hand out
MaxPending == 2      \* writes in flight at once
MaxTime    == 2      \* last instant of the clock
DayLen     == 2      \* instants per local day
TZOffset   == 1      \* local time = UTC instant + TZOffset

\* ---------------------------------------------------------------- values
NULL  == -1          \* JavaScript null for an instant, a date or an id
EMPTY == -1          \* '' in a datetime-local input

Projects  == {"p1", "p2"}
EntryIds  == 1 .. MaxEntries
Times     == 0 .. MaxTime
LocalTimes == {t + TZOffset : t \in Times}   \* what a datetime-local input can hold
NotesInputs == {"", "a "}

NoAction == [kind |-> "none", entryId |-> NULL, projectId |-> ""]

\* ---------------------------------------------------------------- helpers
\* getLocalDateString: the local calendar date of an instant.
getLocalDateString(dateObj) == (dateObj + TZOffset) \div DayLen

\* formatDateTimeLocal: the local wall-clock reading of an instant, '' for null.
formatDateTimeLocal(date) == IF date = NULL THEN EMPTY ELSE date + TZOffset

\* new Date(<datetime-local string>): the instant of a local wall-clock reading.
ParseLocal(s) == s - TZOffset

\* A reading of the clock (new Date()) made after the reading t: the clock
\* does not go back, and moves by at most one tick between two readings.
Later(t) == {t, t + 1} \cap Times

\* String.prototype.trim on the text inputs of the model.
Trim(s) ==
  CASE s = "a " -> "a"
    [] s = " "  -> ""
    [] s = "n " -> "n"
    [] s = "F " -> "F"
    [] OTHER    -> s

Min(S) == CHOOSE x \in S : \A y \in S : x <= y

Entry(p, ci, co, d, n) ==
  [projectId |-> p, clockInTime |-> ci, clockOutTime |-> co, date |-> d, notes |-> n]

Remove(f, id) == [i \in (DOMAIN f) \ {id} |-> f[i]]

VARIABLES
  now,                       \* the last reading of the wall clock
  storeProjects,             \* store: ids of the project documents
  storeEntries,              \* store: timeEntries collection, id -> document
  usedIds,                   \* document ids addDoc has generated so far
  pending,                   \* writes in flight, oldest first
  projects,                  \* App state: last projects snapshot
  allTimeEntries,            \* App state: last timeEntries snapshot
  showModal, modalMessage, modalConfirmAction,
  currentView, selectedProjectId,
  clockedIn, currentEntryId, \* ProjectDetail state
  showEditTimeEntryModal, editingTimeEntryId,
  editingTimeEntryClockIn, editingTimeEntryClockOut, editingTimeEntryNotes,
  registered,                \* auth service: the account exists
  authUser,                  \* auth.currentUser
  storeProfile,              \* store: the profile/data document of the user
  authTask,                  \* handleAuthAction: the request it is awaiting
  listenerTasks,             \* onAuthStateChanged callbacks running, oldest first
  subscriptions,             \* active onSnapshot listeners, per kind
  userId, isAuthReady, userProfile,                       \* App state
  email, password, firstName, lastName, isLoginMode,      \* AuthScreen state
  storeProjectNames,         \* store: name field of the project documents
  projectNames,              \* App state: names in the last projects snapshot
  newProjectName, editingProjectId, editingProjectName,   \* ProjectList state
  projectName,               \* ProjectDetail state: the name in its heading
  selectedCalendarDate, selectedFilterDate,               \* ProjectDetail state
  filteredTimeEntries,       \* ProjectDetail state: ids of the entries listed, in order
  rendered                   \* the totals of the last render

storeVars  == <<storeProjects, storeEntries>>
modalVars  == <<showModal, modalMessage, modalConfirmAction>>
navVars    == <<currentView, selectedProjectId>>
clockVars  == <<clockedIn, currentEntryId>>
editVars   == <<showEditTimeEntryModal, editingTimeEntryId, editingTimeEntryClockIn,
                editingTimeEntryClockOut, editingTimeEntryNotes>>
snapVars   == <<projects, allTimeEntries>>
authVars   == <<registered, authUser, storeProfile, authTask, listenerTasks, subscriptions,
                userId, isAuthReady, userProfile>>
authFormVars == <<email, password, firstName, lastName, isLoginMode>>
projectVars == <<storeProjectNames, projectNames, newProjectName, editingProjectId,
                 editingProjectName, projectName>>
calendarVars == <<selectedCalendarDate, selectedFilterDate, filteredTimeEntries, rendered>>
vars == <<now, storeVars, usedIds, pending, snapVars, modalVars, navVars, clockVars, editVars,
          authVars, authFormVars, projectVars, calendarVars>>

\* ------------------------------------------- values of the auth and list parts
NoUser == "none"                       \* null for auth.currentUser and userId
TheUser == "u1"                        \* uid of the one account of the model
NoProfile == [exists |-> FALSE, firstName |-> "", lastName |-> ""]
Profile(f, l) == [exists |-> TRUE, firstName |-> f, lastName |-> l]
NoSubscriptions == [projects |-> 0, timeEntries |-> 0, project |-> 0]
AppSubscriptions == [projects |-> 1, timeEntries |-> 1, project |-> 0]
NoRender == [kind |-> "none"]

\* A second account: it is registered, its profile document exists, and its
\* projects and timeEntries collections are empty and stay so.
OtherUser == "u2"
OtherEmail == "o"

\* The documents under artifacts/<project>/users/<u>/ (App.js 62, 88, 100,
\* 834): the store variables hold those of TheUser.
UserProfile(u) == IF u = TheUser THEN storeProfile ELSE Profile("O", "")
UserProjects(u) == IF u = TheUser THEN storeProjects ELSE {}
UserProjectNames(u) == IF u = TheUser THEN storeProjectNames ELSE << >>
UserEntries(u) == IF u = TheUser THEN storeEntries ELSE << >>

\* What a handleAuthAction in flight holds: the request it awaits and the
\* names its closure captured; AuthIdle when none is in flight.
AuthTask(k, f, l) == [kind |-> k, firstName |-> f, lastName |-> l]
AuthIdle == AuthTask("idle", "", "")

\* The state of a signed-in user at the project list: the auth and list
\* parts of the state in which the clock and edit handlers are studied.
SignedInAtList ==
  /\ registered = TRUE
  /\ authUser = TheUser
  /\ storeProfile = Profile("F", "L")
  /\ authTask = AuthIdle
  /\ listenerTasks = << >>
  /\ subscriptions = AppSubscriptions
  /\ userId = TheUser
  /\ isAuthReady = TRUE
  /\ userProfile = Profile("F", "L")
  /\ email = "" /\ password = "" /\ firstName = "" /\ lastName = ""
  /\ isLoginMode = TRUE
  /\ newProjectName = ""
  /\ editingProjectId = ""
  /\ editingProjectName = ""
  /\ projectName = ""
  /\ selectedCalendarDate = 0
  /\ selectedFilterDate = NULL
  /\ filteredTimeEntries = << >>
  /\ rendered = NoRender

\* ------------------------------------------------------------------ Init
\* A signed-in user whose two projects exist and who has no time entry yet;
\* no snapshot has been delivered and the project list is shown.
Init ==
  /\ now = 0
  /\ storeProjects = Projects
  /\ storeEntries = << >>
  /\ usedIds = {}
  /\ pending = << >>
  /\ projects = {}
  /\ allTimeEntries = << >>
  /\ showModal = FALSE
  /\ modalMessage = ""
  /\ modalConfirmAction = NoAction
  /\ currentView = "projects"
  /\ selectedProjectId = ""
  /\ clockedIn = FALSE
  /\ currentEntryId = NULL
  /\ showEditTimeEntryModal = FALSE
  /\ editingTimeEntryId = NULL
  /\ editingTimeEntryClockIn = EMPTY
  /\ editingTimeEntryClockOut = EMPTY
  /\ editingTimeEntryNotes = ""
  /\ SignedInAtList
  /\ storeProjectNames = [p \in Projects |-> "n"]
  /\ projectNames = << >>

\* The handlers of the clock, the edit form and the deletions do not touch
\* the auth state, the project list's form or the calendar.
Rest == UNCHANGED <<authVars, authFormVars, projectVars, calendarVars>>

\* ------------------------------------------------------- writes in flight
NoData == Entry("", NULL, NULL, NULL, "")

\* A write in flight: what its continuation needs (the id of the document, the
\* project of a deleteProject), whether the write took effect, and whether the
\* ProjectDetail that issued it is still mounted.
Op(k, id, p) ==
  [kind |-> k, id |-> id, projectId |-> p, applied |-> FALSE, live |-> TRUE]

CanIssue == Len(pending) < MaxPending

Tail1(s) == SubSeq(s, 2, Len(s))

\* The continuations of an unmounted ProjectDetail still run, but their state
\* setters no longer reach a mounted component.
Orphaned(q) == [i \in DOMAIN q |-> [q[i] EXCEPT !.live = FALSE]]

\* --------------------------------------------------------------- the modal
\* (mutant) showCustomModal keeping the confirm action of the modal it replaces
showCustomModal_keepsAction(message, confirmAction) ==
  /\ modalMessage' = message
  /\ modalConfirmAction' = IF confirmAction = NoAction THEN modalConfirmAction ELSE confirmAction
  /\ showModal' = TRUE

\* showCustomModal (App.js 121-125)
showCustomModal(message, confirmAction) ==
  /\ modalMessage' = message
  /\ modalConfirmAction' = confirmAction
  /\ showModal' = TRUE

\* setShowModal(false); setModalConfirmAction(null) (App.js 131-132, 136-137).
\* modalMessage stands for the message on display: App keeps the last message
\* in its state after the modal is closed, where nothing reads it (it is
\* rendered under showModal only, App.js 198-201).
ModalClosed ==
  /\ showModal' = FALSE
  /\ modalConfirmAction' = NoAction
  /\ modalMessage' = ""

\* ------------------------------------------- ProjectDetail: clock derivation
ProjectEntryIds(entries, p) == {e \in DOMAIN entries : entries[e].projectId = p}

OpenEntryIds(entries, p) ==
  {e \in ProjectEntryIds(entries, p) : entries[e].clockOutTime = NULL}

\* (mutant) the lookup made on the entries of every project
lastEntryForThisProject_anyProject(entries, p) ==
  IF {e \in DOMAIN entries : entries[e].clockOutTime = NULL} = {}
  THEN NULL
  ELSE Min({e \in DOMAIN entries : entries[e].clockOutTime = NULL})

\* projectSpecificEntries.find(entry => !entry.clockOutTime): the first open
\* entry in snapshot order (document id order), or none.
lastEntryForThisProject(entries, p) ==
  IF OpenEntryIds(entries, p) = {} THEN NULL ELSE Min(OpenEntryIds(entries, p))

\* The effect of ProjectDetail (App.js 848-869), clock part.
ClockEffect(entries, p) ==
  IF lastEntryForThisProject(entries, p) # NULL
  THEN /\ clockedIn' = TRUE
       /\ currentEntryId' = lastEntryForThisProject(entries, p)
  ELSE /\ clockedIn' = FALSE
       /\ currentEntryId' = NULL

EditFormClosed ==
  /\ showEditTimeEntryModal' = FALSE
  /\ editingTimeEntryId' = NULL
  /\ editingTimeEntryClockIn' = EMPTY
  /\ editingTimeEntryClockOut' = EMPTY
  /\ editingTimeEntryNotes' = ""

\* ------------------------------------------------------ what the user can reach
\* The message modal (App.js 198-222) and the edit form (App.js 1333-1391) are
\* full-screen overlays (fixed inset-0, z-50): while one is shown the controls
\* under it cannot be clicked.  The message modal is rendered after the edit
\* form and lies above it.
PageReachable == ~showModal /\ ~showEditTimeEntryModal
EditFormReachable == ~showModal /\ showEditTimeEntryModal

\* ------------------------------------------------------------ environment
\* The write of document d (addDoc), of the fields of d that updateDoc is
\* given, or the deletion (deleteDoc), for the pending operation op.
StoreWrite(op, d) ==
  CASE op.kind = "clockIn" ->
         storeEntries' = (op.id :> d) @@ storeEntries
    [] op.kind = "clockOut" ->
         storeEntries' = [storeEntries EXCEPT ![op.id].clockOutTime = d.clockOutTime]
    [] op.kind = "edit" ->
         storeEntries' = [storeEntries EXCEPT
                            ![op.id].clockInTime = d.clockInTime,
                            ![op.id].clockOutTime = d.clockOutTime,
                            ![op.id].date = d.date,
                            ![op.id].notes = d.notes]
    [] op.kind = "deleteEntry" ->
         storeEntries' = Remove(storeEntries, op.id)
    [] OTHER -> UNCHANGED storeEntries

\* updateDoc needs the document to exist; addDoc, deleteDoc and getDocs do not.
Applicable(op) ==
  op.kind \in {"clockOut", "edit"} => op.id \in DOMAIN storeEntries

\* A handler issues the request op with data d; ok is the store's answer.  The
\* write takes effect at once (applied), or it is rejected and changes
\* nothing: an updateDoc of a missing document always is, any request may be
\* (network, permission).
Issue(op, d, ok) ==
  /\ CanIssue
  /\ IF ok /\ Applicable(op)
     THEN /\ StoreWrite(op, d)
          /\ pending' = Append(pending, [op EXCEPT !.applied = TRUE])
     ELSE /\ UNCHANGED storeEntries
          /\ pending' = Append(pending, op)
  /\ UNCHANGED storeProjects

\* (mutant) the timeEntries callback merging the snapshot into the entries
\* it holds
SnapshotTimeEntries_merging ==
  /\ subscriptions.timeEntries > 0
  /\ allTimeEntries # UserEntries(userId)
  /\ allTimeEntries' = UserEntries(userId) @@ allTimeEntries
  /\ IF currentView = "detail"
     THEN ClockEffect(UserEntries(userId) @@ allTimeEntries, selectedProjectId)
     ELSE UNCHANGED clockVars
  /\ UNCHANGED <<now, storeVars, usedIds, pending, projects, modalVars, navVars, editVars>>

\* onSnapshot callback of the timeEntries collection (App.js 101-108), followed
\* by the effect of a mounted ProjectDetail, which depends on allTimeEntries.
SnapshotTimeEntries ==
  /\ subscriptions.timeEntries > 0
  /\ allTimeEntries # UserEntries(userId)
  /\ allTimeEntries' = UserEntries(userId)
  /\ IF currentView = "detail"
     THEN ClockEffect(UserEntries(userId), selectedProjectId)
     ELSE UNCHANGED clockVars
  /\ UNCHANGED <<now, storeVars, usedIds, pending, projects, modalVars, navVars, editVars>>

\* onSnapshot callback of the projects collection (App.js 89-94).
SnapshotProjects ==
  /\ subscriptions.projects > 0
  /\ (projects # UserProjects(userId) \/ projectNames # UserProjectNames(userId))
  /\ projects' = UserProjects(userId)
  /\ projectNames' = UserProjectNames(userId)
  /\ UNCHANGED <<now, storeVars, usedIds, pending, allTimeEntries, modalVars, navVars,
                 clockVars, editVars>>

\* ------------------------------------------------------------- navigation
\* "View Details" (App.js 773-776): ProjectList unmounts, ProjectDetail mounts
\* and its effect runs.
viewDetails(p) ==
  /\ PageReachable
  /\ currentView = "projects"
  /\ p \in projects
  /\ selectedProjectId' = p
  /\ currentView' = "detail"
  /\ ClockEffect(allTimeEntries, p)
  /\ EditFormClosed
  /\ pending' = Orphaned(pending)
  /\ UNCHANGED <<now, storeVars, usedIds, snapVars, modalVars>>

\* "Back to Projects" (App.js 1122): ProjectDetail unmounts.
backToProjects ==
  /\ PageReachable
  /\ currentView = "detail"
  /\ currentView' = "projects"
  /\ clockedIn' = FALSE
  /\ currentEntryId' = NULL
  /\ EditFormClosed
  /\ pending' = Orphaned(pending)
  /\ UNCHANGED <<now, storeVars, usedIds, snapVars, modalVars, selectedProjectId>>

\* -------------------------------------------------- ProjectDetail: clock in
\* handleClockIn (App.js 872-900) up to its await.  The entry's clockInTime and
\* its date come from two readings of the clock (new Date() at 887, and the
\* default argument of getLocalDateString at 888), the second not before the
\* first.  addDoc generates the document id.
handleClockIn_rejected ==
  /\ PageReachable
  /\ currentView = "detail"
  /\ clockedIn
  /\ showCustomModal("You are already clocked in for this project.", NoAction)
  /\ UNCHANGED <<now, storeVars, usedIds, pending, snapVars, navVars, clockVars, editVars>>

ClockInData(p, t1, t2) == Entry(p, t1, NULL, getLocalDateString(t2), "")

\* (mutant) handleClockIn without its clockedIn check
handleClockIn_unguarded(ok) ==
  /\ PageReachable
  /\ currentView = "detail"
  /\ \E id \in EntryIds \ usedIds, t1 \in Later(now) : \E t2 \in Later(t1) :
       /\ usedIds' = usedIds \cup {id}
       /\ now' = t2
       /\ Issue(Op("clockIn", id, ""), ClockInData(selectedProjectId, t1, t2), ok)
  /\ UNCHANGED <<snapVars, modalVars, navVars, clockVars, editVars>>

handleClockIn(ok) ==
  /\ PageReachable
  /\ currentView = "detail"
  /\ ~clockedIn
  /\ \E id \in EntryIds \ usedIds, t1 \in Later(now) : \E t2 \in Later(t1) :
       /\ usedIds' = usedIds \cup {id}
       /\ now' = t2
       /\ Issue(Op("clockIn", id, ""), ClockInData(selectedProjectId, t1, t2), ok)
  /\ UNCHANGED <<snapVars, modalVars, navVars, clockVars, editVars>>

\* ... after addDoc resolved (App.js 893-895)
handleClockIn_then ==
  /\ pending # << >>
  /\ pending[1].kind = "clockIn" /\ pending[1].applied
  /\ pending' = Tail1(pending)
  /\ IF pending[1].live
     THEN /\ currentEntryId' = pending[1].id
          /\ clockedIn' = TRUE
     ELSE UNCHANGED clockVars
  /\ showCustomModal("Clocked in successfully!", NoAction)
  /\ UNCHANGED <<now, storeVars, usedIds, snapVars, navVars, editVars>>

\* ... after addDoc rejected (App.js 896-899)
handleClockIn_catch ==
  /\ pending # << >>
  /\ pending[1].kind = "clockIn" /\ ~pending[1].applied
  /\ pending' = Tail1(pending)
  /\ showCustomModal("Failed to clock in. Please try again.", NoAction)
  /\ UNCHANGED <<now, storeVars, usedIds, snapVars, navVars, clockVars, editVars>>

\* ------------------------------------------------- ProjectDetail: clock out
\* handleClockOut (App.js 902-924) up to its await.
handleClockOut_rejected ==
  /\ PageReachable
  /\ currentView = "detail"
  /\ (~clockedIn \/ currentEntryId = NULL)
  /\ showCustomModal("You are not currently clocked in for this project.", NoAction)
  /\ UNCHANGED <<now, storeVars, usedIds, pending, snapVars, navVars, clockVars, editVars>>

\* The partial document updateDoc is given: clockOutTime only.
ClockOutData(t) == [NoData EXCEPT !.clockOutTime = t]

\* (mutant) handleClockOut without its clockedIn / currentEntryId check
handleClockOut_unguarded(ok) ==
  /\ PageReachable
  /\ currentView = "detail"
  /\ \E t \in Later(now) :
       /\ now' = t
       /\ Issue(Op("clockOut", currentEntryId, ""), ClockOutData(t), ok)
  /\ UNCHANGED <<usedIds, snapVars, modalVars, navVars, clockVars, editVars>>

handleClockOut(ok) ==
  /\ PageReachable
  /\ currentView = "detail"
  /\ clockedIn /\ currentEntryId # NULL
  /\ \E t \in Later(now) :
       /\ now' = t
       /\ Issue(Op("clockOut", currentEntryId, ""), ClockOutData(t), ok)
  /\ UNCHANGED <<usedIds, snapVars, modalVars, navVars, clockVars, editVars>>

\* ... after updateDoc resolved (App.js 917-919)
handleClockOut_then ==
  /\ pending # << >>
  /\ pending[1].kind = "clockOut" /\ pending[1].applied
  /\ pending' = Tail1(pending)
  /\ IF pending[1].live
     THEN /\ clockedIn' = FALSE
          /\ currentEntryId' = NULL
     ELSE UNCHANGED clockVars
  /\ showCustomModal("Clocked out successfully!", NoAction)
  /\ UNCHANGED <<now, storeVars, usedIds, snapVars, navVars, editVars>>

\* (mutant) the catch of handleClockOut resetting the clock state
handleClockOut_catch_resets ==
  /\ pending # << >>
  /\ pending[1].kind = "clockOut" /\ ~pending[1].applied
  /\ pending' = Tail1(pending)
  /\ clockedIn' = FALSE
  /\ currentEntryId' = NULL
  /\ showCustomModal("Failed to clock out. Please try again.", NoAction)
  /\ UNCHANGED <<now, storeVars, usedIds, snapVars, navVars, editVars>>

\* ... after updateDoc rejected (App.js 920-923)
handleClockOut_catch ==
  /\ pending # << >>
  /\ pending[1].kind = "clockOut" /\ ~pending[1].applied
  /\ pending' = Tail1(pending)
  /\ showCustomModal("Failed to clock out. Please try again.", NoAction)
  /\ UNCHANGED <<now, storeVars, usedIds, snapVars, navVars, clockVars, editVars>>

\* ------------------------------------------------ ProjectDetail: edit entry
\* The entries the list of the view offers: those of the project in the last
\* snapshot (any date can be selected in the calendar).
ListedEntryIds == ProjectEntryIds(allTimeEntries, selectedProjectId)

\* startEditingTimeEntry (App.js 943-949); the Edit button is rendered for
\* closed entries only (App.js 1249).
startEditingTimeEntry(e) ==
  /\ PageReachable
  /\ currentView = "detail"
  /\ e \in ListedEntryIds
  /\ allTimeEntries[e].clockOutTime # NULL
  /\ editingTimeEntryId' = e
  /\ editingTimeEntryClockIn' = formatDateTimeLocal(allTimeEntries[e].clockInTime)
  /\ editingTimeEntryClockOut' = formatDateTimeLocal(allTimeEntries[e].clockOutTime)
  /\ editingTimeEntryNotes' = allTimeEntries[e].notes
  /\ showEditTimeEntryModal' = TRUE
  /\ UNCHANGED <<now, storeVars, usedIds, pending, snapVars, modalVars, navVars, clockVars>>

\* onChange of the three inputs of the edit form (App.js 1345, 1357, 1369)
setEditingTimeEntryClockIn(v) ==
  /\ EditFormReachable
  /\ editingTimeEntryClockIn # v
  /\ editingTimeEntryClockIn' = v
  /\ UNCHANGED <<now, storeVars, usedIds, pending, snapVars, modalVars, navVars, clockVars,
                 showEditTimeEntryModal, editingTimeEntryId, editingTimeEntryClockOut,
                 editingTimeEntryNotes>>

setEditingTimeEntryClockOut(v) ==
  /\ EditFormReachable
  /\ editingTimeEntryClockOut # v
  /\ editingTimeEntryClockOut' = v
  /\ UNCHANGED <<now, storeVars, usedIds, pending, snapVars, modalVars, navVars, clockVars,
                 showEditTimeEntryModal, editingTimeEntryId, editingTimeEntryClockIn,
                 editingTimeEntryNotes>>

setEditingTimeEntryNotes(v) ==
  /\ EditFormReachable
  /\ editingTimeEntryNotes # v
  /\ editingTimeEntryNotes' = v
  /\ UNCHANGED <<now, storeVars, usedIds, pending, snapVars, modalVars, navVars, clockVars,
                 showEditTimeEntryModal, editingTimeEntryId, editingTimeEntryClockIn,
                 editingTimeEntryClockOut>>

\* Cancel of the edit form (App.js 1383): setShowEditTimeEntryModal(false).
\* The fields keep their values in the component's state, where nothing reads
\* them while the form is closed (startEditingTimeEntry sets all of them before
\* it opens the form again); the model keeps no fields of a closed form.
cancelEdit ==
  /\ EditFormReachable
  /\ EditFormClosed
  /\ UNCHANGED <<now, storeVars, usedIds, pending, snapVars, modalVars, navVars, clockVars>>

\* handleUpdateTimeEntry (App.js 951-987): the validations.  The form is only
\* rendered with editingTimeEntryId set, so the first early return is not taken.
handleUpdateTimeEntry_emptyClockIn ==
  /\ EditFormReachable
  /\ editingTimeEntryId # NULL
  /\ editingTimeEntryClockIn = EMPTY
  /\ showCustomModal("Clock-in time cannot be empty.", NoAction)
  /\ UNCHANGED <<now, storeVars, usedIds, pending, snapVars, navVars, clockVars, editVars>>

newClockInDate == ParseLocal(editingTimeEntryClockIn)

newClockOutDate ==
  IF editingTimeEntryClockOut # EMPTY THEN ParseLocal(editingTimeEntryClockOut) ELSE NULL

\* newClockOutDate && newClockOutDate < newClockInDate (App.js 964)
ClockOutBeforeClockIn == newClockOutDate # NULL /\ newClockOutDate < newClockInDate

handleUpdateTimeEntry_rejected ==
  /\ EditFormReachable
  /\ editingTimeEntryId # NULL
  /\ editingTimeEntryClockIn # EMPTY
  /\ ClockOutBeforeClockIn
  /\ showCustomModal("Clock-out time cannot be before clock-in time.", NoAction)
  /\ UNCHANGED <<now, storeVars, usedIds, pending, snapVars, navVars, clockVars, editVars>>

\* The partial document updateDoc is given (App.js 971-976).
UpdateData ==
  Entry("", newClockInDate, newClockOutDate, getLocalDateString(newClockInDate),
        Trim(editingTimeEntryNotes))

\* (mutant) handleUpdateTimeEntry without the clock-out/clock-in comparison
handleUpdateTimeEntry_unvalidated(ok) ==
  /\ EditFormReachable
  /\ editingTimeEntryId # NULL
  /\ editingTimeEntryClockIn # EMPTY
  /\ Issue(Op("edit", editingTimeEntryId, ""), UpdateData, ok)
  /\ UNCHANGED <<now, usedIds, snapVars, modalVars, navVars, clockVars, editVars>>

handleUpdateTimeEntry(ok) ==
  /\ EditFormReachable
  /\ editingTimeEntryId # NULL
  /\ editingTimeEntryClockIn # EMPTY
  /\ ~ClockOutBeforeClockIn
  /\ Issue(Op("edit", editingTimeEntryId, ""), UpdateData, ok)
  /\ UNCHANGED <<now, usedIds, snapVars, modalVars, navVars, clockVars, editVars>>

\* ... after updateDoc resolved (App.js 977-982)
handleUpdateTimeEntry_then ==
  /\ pending # << >>
  /\ pending[1].kind = "edit" /\ pending[1].applied
  /\ pending' = Tail1(pending)
  /\ IF pending[1].live THEN EditFormClosed ELSE UNCHANGED editVars
  /\ showCustomModal("Time entry updated successfully!", NoAction)
  /\ UNCHANGED <<now, storeVars, usedIds, snapVars, navVars, clockVars>>

\* ... after updateDoc rejected (App.js 983-986)
handleUpdateTimeEntry_catch ==
  /\ pending # << >>
  /\ pending[1].kind = "edit" /\ ~pending[1].applied
  /\ pending' = Tail1(pending)
  /\ showCustomModal("Failed to update time entry. Please try again.", NoAction)
  /\ UNCHANGED <<now, storeVars, usedIds, snapVars, navVars, clockVars, editVars>>

\* ---------------------------------------------- ProjectDetail: delete entry
DeleteEntryQuestion == "Are you sure you want to delete this time entry?"
DeleteProjectQuestion ==
  "Are you sure you want to delete this project? All associated time entries will also be deleted."

DeleteEntryAction(e) == [kind |-> "deleteTimeEntry", entryId |-> e, projectId |-> ""]
DeleteProjectAction(p) == [kind |-> "deleteProject", entryId |-> NULL, projectId |-> p]

\* deleteTimeEntry (App.js 926-941): raises the confirmation.
deleteTimeEntry(entryId) ==
  /\ PageReachable
  /\ currentView = "detail"
  /\ entryId \in ListedEntryIds
  /\ showCustomModal(DeleteEntryQuestion, DeleteEntryAction(entryId))
  /\ UNCHANGED <<now, storeVars, usedIds, pending, snapVars, navVars, clockVars, editVars>>

\* ... the confirm action resolved / rejected (App.js 935, 936-939)
deleteTimeEntry_then ==
  /\ pending # << >>
  /\ pending[1].kind = "deleteEntry" /\ pending[1].applied
  /\ pending' = Tail1(pending)
  /\ showCustomModal("Time entry deleted successfully!", NoAction)
  /\ UNCHANGED <<now, storeVars, usedIds, snapVars, navVars, clockVars, editVars>>

deleteTimeEntry_catch ==
  /\ pending # << >>
  /\ pending[1].kind = "deleteEntry" /\ ~pending[1].applied
  /\ pending' = Tail1(pending)
  /\ showCustomModal("Failed to delete time entry. Please try again.", NoAction)
  /\ UNCHANGED <<now, storeVars, usedIds, snapVars, navVars, clockVars, editVars>>

\* ------------------------------------------------ ProjectList: delete project
\* deleteProject (App.js 683-710): raises the confirmation.
deleteProject(projectId) ==
  /\ PageReachable
  /\ currentView = "projects"
  /\ projectId \in projects
  /\ showCustomModal(DeleteProjectQuestion, DeleteProjectAction(projectId))
  /\ UNCHANGED <<now, storeVars, usedIds, pending, snapVars, navVars, clockVars, editVars>>

\* (mutant) the confirm action deleting the project document before it turns
\* to the time entries
deleteProject_afterGetDocs_projectFirst ==
  /\ pending # << >>
  /\ pending[1].kind = "deleteProject"
  /\ pending' = Tail1(pending)
  /\ storeProjects' = storeProjects \ {pending[1].projectId}
  /\ showCustomModal("Failed to delete project. Please try again.", NoAction)
  /\ UNCHANGED <<now, storeEntries, usedIds, snapVars, navVars, clockVars, editVars>>

\* ... the confirm action after getDocs resolved (App.js 693-708).  db is the
\* instance getFirestore returns (App.js 53); the modular API imported at
\* App.js 4 offers writeBatch(db) and the instance has no batch method, so
\* db.batch() at 693 throws a TypeError before any delete is queued, and the
\* catch at 705 reports the failure.  getDocs rejecting ends in the same catch.
deleteProject_afterGetDocs ==
  /\ pending # << >>
  /\ pending[1].kind = "deleteProject"
  /\ pending' = Tail1(pending)
  /\ showCustomModal("Failed to delete project. Please try again.", NoAction)
  /\ UNCHANGED <<now, storeVars, usedIds, snapVars, navVars, clockVars, editVars>>

\* ------------------------------------------------------ App: modal buttons
\* What the confirm action does before its first await: it issues its request.
ConfirmRequest(a) ==
  IF a.kind = "deleteTimeEntry"
  THEN Op("deleteEntry", a.entryId, "")
  ELSE Op("deleteProject", NULL, a.projectId)

\* handleModalConfirm (App.js 127-133); the Confirm button is rendered only
\* with a confirm action (App.js 203).
handleModalConfirm(ok) ==
  /\ showModal
  /\ modalConfirmAction # NoAction
  /\ Issue(ConfirmRequest(modalConfirmAction), NoData, ok)
  /\ ModalClosed
  /\ UNCHANGED <<now, usedIds, snapVars, navVars, clockVars, editVars>>

\* handleModalClose (App.js 135-138): Cancel or OK.
handleModalClose ==
  /\ showModal
  /\ ModalClosed
  /\ UNCHANGED <<now, storeVars, usedIds, pending, snapVars, navVars, clockVars, editVars>>

\* ------------------------------------------------------- App: auth listener
EmailInputs == {"", "e"}
PasswordInputs == {"", "pw"}
FirstNameInputs == {"", " ", "F "}
LastNameInputs == {"", "L"}

\* An onAuthStateChanged callback (App.js 59-75) in flight: the user it was
\* called with, the await it stands at, and what getDoc returned.
ListenerTask(user) == [user |-> user, pc |-> "start", profile |-> NoProfile]

MaxListenerTasks == 2

RemoveAt(q, i) == SubSeq(q, 1, i - 1) \o SubSeq(q, i + 1, Len(q))

\* (mutant) the subscriptions effect of App without its cleanup
AppSubscriptionsEffect_noCleanup(subs, u0, r0, u1, r1) ==
  IF <<u0, r0>> = <<u1, r1>>
  THEN subs
  ELSE IF u1 # NoUser /\ r1
       THEN [subs EXCEPT !.projects = @ + 1, !.timeEntries = @ + 1]
       ELSE subs

\* The subscriptions effect of App (App.js 86-119), run after a render in
\* which userId or isAuthReady changed from (u0, r0) to (u1, r1): the cleanup
\* of the previous run, then the new subscriptions.
AppSubscriptionsEffect(subs, u0, r0, u1, r1) ==
  IF <<u0, r0>> = <<u1, r1>>
  THEN subs
  ELSE LET cleaned == IF u0 # NoUser /\ r0
                      THEN [subs EXCEPT !.projects = @ - 1, !.timeEntries = @ - 1]
                      ELSE subs
       IN  IF u1 # NoUser /\ r1
           THEN [cleaned EXCEPT !.projects = @ + 1, !.timeEntries = @ + 1]
           ELSE cleaned

\* The project subscription effect of ProjectDetail (App.js 832-846) when the
\* view is mounted with a userId, and its cleanup.
ProjectSubscribed(subs) == [subs EXCEPT !.project = @ + 1]
ProjectUnsubscribed(subs) == [subs EXCEPT !.project = @ - 1]

\* The page of a signed-in user is on screen and its handlers have a userId.
PageShown == authUser # NoUser /\ userId # NoUser /\ isAuthReady
AuthScreenShown == authUser = NoUser /\ isAuthReady /\ ~showModal

\* The modal is on screen: App returns the loading screen while isAuthReady
\* is false (App.js 155-161), before the markup of the modal (App.js 198-222).
ModalDisplayed == isAuthReady /\ showModal

\* The state of a ProjectList (App.js 626-628) and of an AuthScreen
\* (App.js 230-234) when it mounts; the model keeps it in this state while
\* the component is not mounted.
ProjectListFormCleared ==
  /\ newProjectName' = ""
  /\ editingProjectId' = ""
  /\ editingProjectName' = ""

AuthFormCleared ==
  /\ email' = "" /\ password' = "" /\ firstName' = "" /\ lastName' = ""
  /\ isLoginMode' = TRUE

\* The callback starts (App.js 60-63, 70-74).  For a user: setUserId, and
\* getDoc is awaited; the render that follows mounts the user's page, a
\* ProjectDetail when that was the current view.  For null: the state is
\* cleared, the page unmounts and the callback ends.
authListener_start(i) ==
  /\ i \in 1 .. Len(listenerTasks)
  /\ listenerTasks[i].pc = "start"
  /\ \A j \in 1 .. (i - 1) : listenerTasks[j].pc # "start"
  /\ LET user == listenerTasks[i].user
         ready == IF user = NoUser THEN TRUE ELSE isAuthReady
         subs == AppSubscriptionsEffect(subscriptions, userId, isAuthReady, user, ready)
         detail == currentView = "detail"
     IN  /\ userId' = user
         /\ isAuthReady' = ready
         /\ IF user = NoUser
            THEN /\ userProfile' = NoProfile
                 /\ listenerTasks' = RemoveAt(listenerTasks, i)
                 /\ subscriptions' = IF detail /\ userId # NoUser
                                     THEN ProjectUnsubscribed(subs) ELSE subs
                 /\ pending' = Orphaned(pending)
                 /\ clockedIn' = FALSE /\ currentEntryId' = NULL
                 /\ EditFormClosed
            ELSE /\ UNCHANGED userProfile
                 /\ listenerTasks' = [listenerTasks EXCEPT ![i].pc = "getDoc"]
                 /\ subscriptions' = IF detail /\ userId = NoUser
                                     THEN ProjectSubscribed(subs) ELSE subs
                 /\ UNCHANGED <<pending, editVars>>
                 /\ IF detail /\ userId = NoUser
                    THEN ClockEffect(allTimeEntries, selectedProjectId)
                    ELSE UNCHANGED clockVars
  /\ IF listenerTasks[i].user = NoUser
     THEN /\ ProjectListFormCleared
          /\ projectName' = ""
          /\ UNCHANGED authFormVars
     ELSE /\ AuthFormCleared
          /\ UNCHANGED <<newProjectName, editingProjectId, editingProjectName, projectName>>
  /\ UNCHANGED <<now, storeVars, usedIds, snapVars, modalVars, navVars, registered, authUser,
                 storeProfile, authTask, storeProjectNames, projectNames, calendarVars>>

\* getDoc reads the profile document (App.js 63).
authListener_getDoc(i) ==
  /\ i \in 1 .. Len(listenerTasks)
  /\ listenerTasks[i].pc = "getDoc"
  /\ listenerTasks' = [listenerTasks EXCEPT ![i].pc = "read", ![i].profile = UserProfile(listenerTasks[i].user)]
  /\ UNCHANGED <<now, storeVars, usedIds, pending, snapVars, modalVars, navVars, clockVars,
                 editVars, registered, authUser, storeProfile, authTask, subscriptions,
                 userId, isAuthReady, userProfile, authFormVars, projectVars, calendarVars>>

\* setDoc(ref, data, {merge: true}) with the four profile fields: the fields
\* given replace those of the document.
MergedProfile(f, l) == Profile(f, l)

\* ... after getDoc resolved (App.js 64-69): the profile read is taken, or a
\* blank profile is set and written.
authListener_afterGetDoc(i) ==
  /\ i \in 1 .. Len(listenerTasks)
  /\ listenerTasks[i].pc = "read"
  /\ IF listenerTasks[i].profile.exists
     THEN /\ userProfile' = listenerTasks[i].profile
          /\ isAuthReady' = TRUE
          /\ subscriptions' =
               AppSubscriptionsEffect(subscriptions, userId, isAuthReady, userId, TRUE)
          /\ listenerTasks' = RemoveAt(listenerTasks, i)
          /\ UNCHANGED storeProfile
     ELSE /\ userProfile' = Profile("", "")
          /\ storeProfile' = MergedProfile("", "")
          /\ listenerTasks' = [listenerTasks EXCEPT ![i].pc = "setDoc"]
          /\ UNCHANGED <<isAuthReady, subscriptions>>
  /\ UNCHANGED <<now, storeVars, usedIds, pending, snapVars, modalVars, navVars, clockVars,
                 editVars, registered, authUser, authTask, userId, authFormVars, projectVars,
                 calendarVars>>

\* ... after setDoc resolved (App.js 74).
authListener_afterSetDoc(i) ==
  /\ i \in 1 .. Len(listenerTasks)
  /\ listenerTasks[i].pc = "setDoc"
  /\ isAuthReady' = TRUE
  /\ subscriptions' = AppSubscriptionsEffect(subscriptions, userId, isAuthReady, userId, TRUE)
  /\ listenerTasks' = RemoveAt(listenerTasks, i)
  /\ UNCHANGED <<now, storeVars, usedIds, pending, snapVars, modalVars, navVars, clockVars,
                 editVars, registered, authUser, storeProfile, authTask, userId, userProfile,
                 authFormVars, projectVars, calendarVars>>

\* What a step of a listener callback leaves alone besides the task, the
\* profile and isAuthReady.
ListenerFrame ==
  UNCHANGED <<now, storeVars, usedIds, pending, snapVars, modalVars, navVars, clockVars,
              editVars, registered, authUser, storeProfile, authTask, subscriptions, userId,
              authFormVars, projectVars, calendarVars>>

\* getDoc rejects (App.js 63): the callback is an async function with no
\* try around its awaits, so it ends there, its promise rejected.
authListener_getDoc_rejected(i) ==
  /\ i \in 1 .. Len(listenerTasks)
  /\ listenerTasks[i].pc = "getDoc"
  /\ listenerTasks' = [listenerTasks EXCEPT ![i].pc = "rejected"]
  /\ UNCHANGED <<isAuthReady, userProfile>>
  /\ ListenerFrame

\* ... after getDoc resolved with no document (App.js 67-68), when the setDoc
\* of the blank profile is rejected: nothing is written.
authListener_afterGetDoc_setDocRejected(i) ==
  /\ i \in 1 .. Len(listenerTasks)
  /\ listenerTasks[i].pc = "read"
  /\ ~listenerTasks[i].profile.exists
  /\ userProfile' = Profile("", "")
  /\ listenerTasks' = [listenerTasks EXCEPT ![i].pc = "rejected"]
  /\ UNCHANGED isAuthReady
  /\ ListenerFrame

\* The rejection reaches the callback: it ends without the statement at
\* App.js 75.
authListener_rejected(i) ==
  /\ i \in 1 .. Len(listenerTasks)
  /\ listenerTasks[i].pc = "rejected"
  /\ listenerTasks' = RemoveAt(listenerTasks, i)
  /\ UNCHANGED <<isAuthReady, userProfile>>
  /\ ListenerFrame

\* ------------------------------------------------------------- AuthScreen
\* The inputs and the mode switch of the form (App.js 322, 335, 351, 365, 379).
setEmail(v) ==
  /\ AuthScreenShown
  /\ email' = v
  /\ UNCHANGED <<password, firstName, lastName, isLoginMode>>

setPassword(v) ==
  /\ AuthScreenShown
  /\ password' = v
  /\ UNCHANGED <<email, firstName, lastName, isLoginMode>>

setFirstName(v) ==
  /\ AuthScreenShown
  /\ ~isLoginMode
  /\ firstName' = v
  /\ UNCHANGED <<email, password, lastName, isLoginMode>>

setLastName(v) ==
  /\ AuthScreenShown
  /\ ~isLoginMode
  /\ lastName' = v
  /\ UNCHANGED <<email, password, firstName, isLoginMode>>

setIsLoginMode ==
  /\ AuthScreenShown
  /\ isLoginMode' = ~isLoginMode
  /\ UNCHANGED <<email, password, firstName, lastName>>

\* What the AuthScreen actions leave alone besides the form and what each
\* names.
AuthScreenFrame ==
  UNCHANGED <<now, storeVars, usedIds, pending, snapVars, navVars, clockVars, editVars,
              projectVars, calendarVars, subscriptions, userId, isAuthReady>>

EmptyCredentials == email = "" \/ password = ""
EmptyNames == ~isLoginMode /\ (Trim(firstName) = "" \/ Trim(lastName) = "")

\* handleAuthAction, first check (App.js 241-244).
handleAuthAction_emptyCredentials ==
  /\ AuthScreenShown
  /\ EmptyCredentials
  /\ showCustomModal("Email and password cannot be empty.", NoAction)
  /\ UNCHANGED <<registered, authUser, storeProfile, authTask, listenerTasks, userProfile,
                 authFormVars>>
  /\ AuthScreenFrame

\* handleAuthAction, second check (App.js 245-248).
handleAuthAction_emptyNames ==
  /\ AuthScreenShown
  /\ ~EmptyCredentials
  /\ EmptyNames
  /\ showCustomModal("First Name and Last Name cannot be empty for sign up.", NoAction)
  /\ UNCHANGED <<registered, authUser, storeProfile, authTask, listenerTasks, userProfile,
                 authFormVars>>
  /\ AuthScreenFrame

\* handleAuthAction up to its first await (App.js 250-256): the request to
\* the auth service is sent.  One request is in flight at a time.
handleAuthAction ==
  /\ AuthScreenShown
  /\ ~EmptyCredentials
  /\ ~EmptyNames
  /\ authTask = AuthIdle
  /\ authTask' = AuthTask(IF isLoginMode THEN "signIn" ELSE "createUser", firstName, lastName)
  /\ UNCHANGED <<registered, authUser, storeProfile, listenerTasks, userProfile, authFormVars,
                 modalVars>>
  /\ AuthScreenFrame

\* The auth service answers signInWithEmailAndPassword: the account exists
\* and the user is signed in (the auth state listener is called), or the
\* request is rejected.
signIn_resolved ==
  /\ authTask.kind = "signIn"
  /\ IF registered
     THEN /\ Len(listenerTasks) < MaxListenerTasks
          /\ authUser' = TheUser
          /\ listenerTasks' = Append(listenerTasks, ListenerTask(TheUser))
          /\ authTask' = [authTask EXCEPT !.kind = "signedIn"]
     ELSE /\ authTask' = [authTask EXCEPT !.kind = "rejected"]
          /\ UNCHANGED <<authUser, listenerTasks>>
  /\ UNCHANGED <<registered, storeProfile, userProfile, authFormVars, modalVars>>
  /\ AuthScreenFrame

\* The auth service answers signInWithEmailAndPassword for the email of the
\* other account: that user is signed in.
signInOther_resolved ==
  /\ authTask.kind = "signIn"
  /\ email = OtherEmail
  /\ Len(listenerTasks) < MaxListenerTasks
  /\ authUser' = OtherUser
  /\ listenerTasks' = Append(listenerTasks, ListenerTask(OtherUser))
  /\ authTask' = [authTask EXCEPT !.kind = "signedIn"]
  /\ UNCHANGED <<registered, storeProfile, userProfile, authFormVars, modalVars>>
  /\ AuthScreenFrame

\* The auth service answers createUserWithEmailAndPassword: the account is
\* created and signed in, or the email is already in use.
createUser_resolved ==
  /\ authTask.kind = "createUser"
  /\ IF ~registered
     THEN /\ Len(listenerTasks) < MaxListenerTasks
          /\ registered' = TRUE
          /\ authUser' = TheUser
          /\ listenerTasks' = Append(listenerTasks, ListenerTask(TheUser))
          /\ authTask' = [authTask EXCEPT !.kind = "created"]
     ELSE /\ authTask' = [authTask EXCEPT !.kind = "inUse"]
          /\ UNCHANGED <<registered, authUser, listenerTasks>>
  /\ UNCHANGED <<storeProfile, userProfile, authFormVars, modalVars>>
  /\ AuthScreenFrame

\* handleAuthAction after signIn resolved (App.js 253).
handleAuthAction_afterSignIn ==
  /\ authTask.kind = "signedIn"
  /\ authTask' = AuthIdle
  /\ showCustomModal("Logged in successfully!", NoAction)
  /\ UNCHANGED <<registered, authUser, storeProfile, listenerTasks, userProfile, authFormVars>>
  /\ AuthScreenFrame

\* handleAuthAction, catch (App.js 270-294).
handleAuthAction_catch ==
  /\ authTask.kind \in {"rejected", "inUse"}
  /\ authTask' = AuthIdle
  /\ showCustomModal(IF authTask.kind = "inUse"
                     THEN "This email is already in use. Try logging in."
                     ELSE "Invalid email or password.", NoAction)
  /\ UNCHANGED <<registered, authUser, storeProfile, listenerTasks, userProfile, authFormVars>>
  /\ AuthScreenFrame

\* handleAuthAction after createUser resolved (App.js 257-265): the profile
\* with the names of the form is written, merged into the document.
handleAuthAction_afterCreateUser ==
  /\ authTask.kind = "created"
  /\ storeProfile' = MergedProfile(Trim(authTask.firstName), Trim(authTask.lastName))
  /\ authTask' = [authTask EXCEPT !.kind = "setDoc"]
  /\ UNCHANGED <<registered, authUser, listenerTasks, userProfile, authFormVars, modalVars>>
  /\ AuthScreenFrame

\* handleAuthAction after setDoc resolved (App.js 266-267).
handleAuthAction_afterSetDoc ==
  /\ authTask.kind = "setDoc"
  /\ userProfile' = Profile(Trim(authTask.firstName), Trim(authTask.lastName))
  /\ authTask' = AuthIdle
  /\ showCustomModal("Account created and logged in successfully!", NoAction)
  /\ UNCHANGED <<registered, authUser, storeProfile, listenerTasks, authFormVars>>
  /\ AuthScreenFrame

\* "Sign Out" (App.js 168-175): signOut resolves and the auth state listener
\* is called with null.
signOut ==
  /\ PageShown
  /\ ~showModal
  /\ authTask = AuthIdle
  /\ Len(listenerTasks) < MaxListenerTasks
  /\ authUser' = NoUser
  /\ listenerTasks' = Append(listenerTasks, ListenerTask(NoUser))
  /\ UNCHANGED <<registered, storeProfile, authTask, userProfile, authFormVars, modalVars>>
  /\ AuthScreenFrame

\* ------------------------------------------------------------ ProjectList
NameInputs == {"", " ", "n ", "m"}

ProjectListReachable == PageShown /\ PageReachable /\ currentView = "projects"

\* What the ProjectList actions leave alone besides what each names.
ProjectListFrame ==
  UNCHANGED <<now, storeEntries, usedIds, snapVars, navVars, clockVars, editVars, authVars,
              authFormVars, projectNames, projectName, calendarVars>>

\* The inputs of the list (App.js 721, 747) and Cancel (App.js 758).
setNewProjectName(v) ==
  /\ ProjectListReachable
  /\ newProjectName' = v
  /\ UNCHANGED <<storeProjects, storeProjectNames, pending, modalVars, editingProjectId,
                 editingProjectName>>
  /\ ProjectListFrame

\* startEditingProject (App.js 654-657)
startEditingProject(p) ==
  /\ ProjectListReachable
  /\ p \in projects
  /\ editingProjectId' = p
  /\ editingProjectName' = projectNames[p]
  /\ UNCHANGED <<storeProjects, storeProjectNames, pending, modalVars, newProjectName>>
  /\ ProjectListFrame

setEditingProjectName(v) ==
  /\ ProjectListReachable
  /\ editingProjectId \in projects
  /\ editingProjectName' = v
  /\ UNCHANGED <<storeProjects, storeProjectNames, pending, modalVars, newProjectName,
                 editingProjectId>>
  /\ ProjectListFrame

cancelEditingProject ==
  /\ ProjectListReachable
  /\ editingProjectId \in projects
  /\ editingProjectId' = ""
  /\ UNCHANGED <<storeProjects, storeProjectNames, pending, modalVars, newProjectName,
                 editingProjectName>>
  /\ ProjectListFrame

\* addProject, the check of the name (App.js 631-634).
addProject_rejected ==
  /\ ProjectListReachable
  /\ Trim(newProjectName) = ""
  /\ showCustomModal("Project name cannot be empty.", NoAction)
  /\ UNCHANGED <<storeProjects, storeProjectNames, pending, newProjectName, editingProjectId,
                 editingProjectName>>
  /\ ProjectListFrame

\* addDoc(projects, {name, createdAt}) for the document id, answered ok or not.
IssueAddProject(id, name, ok) ==
  /\ CanIssue
  /\ IF ok
     THEN /\ storeProjects' = storeProjects \cup {id}
          /\ storeProjectNames' = (id :> name) @@ storeProjectNames
     ELSE UNCHANGED <<storeProjects, storeProjectNames>>
  /\ pending' = Append(pending, [Op("addProject", NULL, id) EXCEPT !.applied = ok])

\* (mutant) addProject without the check of the name
addProject_unchecked(ok) ==
  /\ ProjectListReachable
  /\ \E id \in Projects \ storeProjects : IssueAddProject(id, Trim(newProjectName), ok)
  /\ UNCHANGED <<modalVars, newProjectName, editingProjectId, editingProjectName>>
  /\ ProjectListFrame

\* addProject up to its await (App.js 639-646).  addDoc generates the id.
addProject(ok) ==
  /\ ProjectListReachable
  /\ Trim(newProjectName) # ""
  /\ \E id \in Projects \ storeProjects : IssueAddProject(id, Trim(newProjectName), ok)
  /\ UNCHANGED <<modalVars, newProjectName, editingProjectId, editingProjectName>>
  /\ ProjectListFrame

\* ... after addDoc resolved (App.js 647-648)
addProject_then ==
  /\ pending # << >>
  /\ pending[1].kind = "addProject" /\ pending[1].applied
  /\ pending' = Tail1(pending)
  /\ newProjectName' = IF pending[1].live THEN "" ELSE newProjectName
  /\ showCustomModal("Project added successfully!", NoAction)
  /\ UNCHANGED <<storeProjects, storeProjectNames, editingProjectId, editingProjectName>>
  /\ ProjectListFrame

\* ... after addDoc rejected (App.js 649-651)
addProject_catch ==
  /\ pending # << >>
  /\ pending[1].kind = "addProject" /\ ~pending[1].applied
  /\ pending' = Tail1(pending)
  /\ showCustomModal("Failed to add project. Please try again.", NoAction)
  /\ UNCHANGED <<storeProjects, storeProjectNames, newProjectName, editingProjectId,
                 editingProjectName>>
  /\ ProjectListFrame

\* updateProject, the check of the name (App.js 660-663).
updateProject_rejected ==
  /\ ProjectListReachable
  /\ editingProjectId \in projects
  /\ Trim(editingProjectName) = ""
  /\ showCustomModal("Project name cannot be empty.", NoAction)
  /\ UNCHANGED <<storeProjects, storeProjectNames, pending, newProjectName, editingProjectId,
                 editingProjectName>>
  /\ ProjectListFrame

\* updateDoc(projectDocRef, {name}), answered ok or not; a missing document
\* is always a rejection.
IssueUpdateProject(id, name, ok) ==
  /\ CanIssue
  /\ IF ok /\ id \in storeProjects
     THEN /\ storeProjectNames' = [storeProjectNames EXCEPT ![id] = name]
          /\ pending' = Append(pending, [Op("updateProject", NULL, id) EXCEPT !.applied = TRUE])
     ELSE /\ UNCHANGED storeProjectNames
          /\ pending' = Append(pending, Op("updateProject", NULL, id))
  /\ UNCHANGED storeProjects

\* updateProject up to its await (App.js 668-672), from the Save button of
\* the row in edit (App.js 752).
updateProject(ok) ==
  /\ ProjectListReachable
  /\ editingProjectId \in projects
  /\ Trim(editingProjectName) # ""
  /\ IssueUpdateProject(editingProjectId, Trim(editingProjectName), ok)
  /\ UNCHANGED <<modalVars, newProjectName, editingProjectId, editingProjectName>>
  /\ ProjectListFrame

\* ... after updateDoc resolved (App.js 673-675)
updateProject_then ==
  /\ pending # << >>
  /\ pending[1].kind = "updateProject" /\ pending[1].applied
  /\ pending' = Tail1(pending)
  /\ IF pending[1].live
     THEN editingProjectId' = "" /\ editingProjectName' = ""
     ELSE UNCHANGED <<editingProjectId, editingProjectName>>
  /\ showCustomModal("Project updated successfully!", NoAction)
  /\ UNCHANGED <<storeProjects, storeProjectNames, newProjectName>>
  /\ ProjectListFrame

\* ... after updateDoc rejected (App.js 676-679)
updateProject_catch ==
  /\ pending # << >>
  /\ pending[1].kind = "updateProject" /\ ~pending[1].applied
  /\ pending' = Tail1(pending)
  /\ showCustomModal("Failed to update project. Please try again.", NoAction)
  /\ UNCHANGED <<storeProjects, storeProjectNames, newProjectName, editingProjectId,
                 editingProjectName>>
  /\ ProjectListFrame

\* onSnapshot callback of the project document (App.js 834-843), delivered to
\* a mounted ProjectDetail.
SnapshotProject ==
  /\ subscriptions.project > 0
  /\ IF selectedProjectId \in UserProjects(userId)
     THEN /\ projectName # UserProjectNames(userId)[selectedProjectId]
          /\ projectName' = UserProjectNames(userId)[selectedProjectId]
          /\ UNCHANGED <<modalVars, navVars, clockVars, editVars, pending, subscriptions>>
     ELSE /\ projectName' = ""
          /\ showCustomModal("Project not found. Returning to project list.", NoAction)
          /\ currentView' = "projects"
          /\ UNCHANGED selectedProjectId
          /\ clockedIn' = FALSE /\ currentEntryId' = NULL
          /\ EditFormClosed
          /\ pending' = Orphaned(pending)
          /\ subscriptions' = ProjectUnsubscribed(subscriptions)
  /\ UNCHANGED <<now, storeVars, usedIds, snapVars, registered, authUser, storeProfile,
                 authTask, listenerTasks, userId, isAuthReady, userProfile, authFormVars,
                 storeProjectNames, projectNames, newProjectName, editingProjectId,
                 editingProjectName, calendarVars>>

\* ------------------------------------------------------------------- Next
\* No write is in flight and the last snapshots have been delivered.
Settled ==
  /\ pending = << >>
  /\ allTimeEntries = storeEntries
  /\ projects = storeProjects

\* One user working step by step: the environment delivers snapshots and
\* settles promises, and the user acts once the previous action has settled.
\* Any write may be rejected by the store.
Next ==
  \/ SnapshotTimeEntries /\ Rest
  \/ SnapshotProjects
       /\ UNCHANGED <<authVars, authFormVars, storeProjectNames, newProjectName,
                      editingProjectId, editingProjectName, projectName, calendarVars>>
  \/ handleClockIn_then /\ Rest
  \/ handleClockIn_catch /\ Rest
  \/ handleClockOut_then /\ Rest
  \/ handleClockOut_catch /\ Rest
  \/ handleUpdateTimeEntry_then /\ Rest
  \/ handleUpdateTimeEntry_catch /\ Rest
  \/ deleteTimeEntry_then /\ Rest
  \/ deleteTimeEntry_catch /\ Rest
  \/ deleteProject_afterGetDocs /\ Rest
  \/ Settled /\ \E p \in Projects : (viewDetails(p)) /\ Rest
  \/ Settled /\ backToProjects /\ Rest
  \/ Settled /\ handleClockIn_rejected /\ Rest
  \/ Settled /\ \E ok \in BOOLEAN : (handleClockIn(ok)) /\ Rest
  \/ Settled /\ handleClockOut_rejected /\ Rest
  \/ Settled /\ \E ok \in BOOLEAN : (handleClockOut(ok)) /\ Rest
  \/ Settled /\ \E e \in EntryIds : (startEditingTimeEntry(e)) /\ Rest
  \/ Settled /\ \E v \in LocalTimes \cup {EMPTY} : (setEditingTimeEntryClockIn(v)) /\ Rest
  \/ Settled /\ \E v \in LocalTimes \cup {EMPTY} : (setEditingTimeEntryClockOut(v)) /\ Rest
  \/ Settled /\ \E v \in NotesInputs : (setEditingTimeEntryNotes(v)) /\ Rest
  \/ Settled /\ cancelEdit /\ Rest
  \/ Settled /\ handleUpdateTimeEntry_emptyClockIn /\ Rest
  \/ Settled /\ handleUpdateTimeEntry_rejected /\ Rest
  \/ Settled /\ \E ok \in BOOLEAN : (handleUpdateTimeEntry(ok)) /\ Rest
  \/ Settled /\ \E e \in EntryIds : (deleteTimeEntry(e)) /\ Rest
  \/ Settled /\ \E p \in Projects : (deleteProject(p)) /\ Rest
  \/ Settled /\ \E ok \in BOOLEAN : (handleModalConfirm(ok)) /\ Rest
  \/ handleModalClose /\ Rest

Spec == Init /\ [][Next]_vars

\* The user acting while writes are in flight and snapshots are late: clock
\* in, clock out and the deletions, with a store that accepts every write it
\* can apply.
NextAsync ==
  \/ SnapshotTimeEntries /\ Rest
  \/ SnapshotProjects
       /\ UNCHANGED <<authVars, authFormVars, storeProjectNames, newProjectName,
                      editingProjectId, editingProjectName, projectName, calendarVars>>
  \/ handleClockIn_then /\ Rest
  \/ handleClockOut_then /\ Rest
  \/ handleClockOut_catch /\ Rest
  \/ deleteTimeEntry_then /\ Rest
  \/ deleteProject_afterGetDocs /\ Rest
  \/ \E p \in Projects : (viewDetails(p)) /\ Rest
  \/ backToProjects /\ Rest
  \/ handleClockIn_rejected /\ Rest
  \/ handleClockIn(TRUE) /\ Rest
  \/ handleClockOut_rejected /\ Rest
  \/ handleClockOut(TRUE) /\ Rest
  \/ \E e \in EntryIds : (deleteTimeEntry(e)) /\ Rest
  \/ \E p \in Projects : (deleteProject(p)) /\ Rest
  \/ handleModalConfirm(TRUE) /\ Rest
  \/ handleModalClose /\ Rest

SpecAsync == Init /\ [][NextAsync]_vars

\* ----------------------------------------------- sign-in, lists and forms
\* The application as it starts: the auth state listener is about to be
\* called with no user.  Either nobody has signed up yet and the store is
\* empty, or the account exists with its profile, one project and two closed
\* time entries.
InitForms ==
  /\ now = MaxTime
  /\ registered \in BOOLEAN
  /\ IF registered
     THEN /\ storeProjects = {"p1"}
          /\ storeProjectNames = [p \in {"p1"} |-> "n"]
          /\ storeEntries = (1 :> Entry("p1", 0, 1, getLocalDateString(0), "")) @@
                            (2 :> Entry("p1", 1, 2, getLocalDateString(1), ""))
          /\ usedIds = {1, 2}
          /\ storeProfile = Profile("F", "L")
     ELSE /\ storeProjects = {}
          /\ storeProjectNames = << >>
          /\ storeEntries = << >>
          /\ usedIds = {}
          /\ storeProfile = NoProfile
  /\ pending = << >>
  /\ projects = {}
  /\ projectNames = << >>
  /\ allTimeEntries = << >>
  /\ showModal = FALSE
  /\ modalMessage = ""
  /\ modalConfirmAction = NoAction
  /\ currentView = "projects"
  /\ selectedProjectId = ""
  /\ clockedIn = FALSE
  /\ currentEntryId = NULL
  /\ showEditTimeEntryModal = FALSE
  /\ editingTimeEntryId = NULL
  /\ editingTimeEntryClockIn = EMPTY
  /\ editingTimeEntryClockOut = EMPTY
  /\ editingTimeEntryNotes = ""
  /\ authUser = NoUser
  /\ authTask = AuthIdle
  /\ listenerTasks = <<ListenerTask(NoUser)>>
  /\ subscriptions = NoSubscriptions
  /\ userId = NoUser
  /\ isAuthReady = FALSE
  /\ userProfile = NoProfile
  /\ email = "" /\ password = "" /\ firstName = "" /\ lastName = ""
  /\ isLoginMode = TRUE
  /\ newProjectName = ""
  /\ editingProjectId = ""
  /\ editingProjectName = ""
  /\ projectName = ""
  /\ selectedCalendarDate = 0
  /\ selectedFilterDate = NULL
  /\ filteredTimeEntries = << >>
  /\ rendered = NoRender

\* What an input of the AuthScreen leaves alone.
AuthInputFrame ==
  UNCHANGED <<now, storeVars, usedIds, pending, snapVars, modalVars, navVars, clockVars,
              editVars, authVars, projectVars, calendarVars>>

\* The mount and unmount of ProjectDetail and ProjectList that go with the
\* two navigations: the project subscription (App.js 832-846) and the state
\* the components start with (App.js 626-628, 807).
DetailMounted ==
  /\ ProjectListFormCleared
  /\ projectName' = ""
  /\ subscriptions' = ProjectSubscribed(subscriptions)
  /\ UNCHANGED <<registered, authUser, storeProfile, authTask, listenerTasks, userId,
                 isAuthReady, userProfile, authFormVars, storeProjectNames, projectNames,
                 calendarVars>>

DetailUnmounted ==
  /\ projectName' = ""
  /\ subscriptions' = ProjectUnsubscribed(subscriptions)
  /\ UNCHANGED <<registered, authUser, storeProfile, authTask, listenerTasks, userId,
                 isAuthReady, userProfile, authFormVars, storeProjectNames, projectNames,
                 newProjectName, editingProjectId, editingProjectName, calendarVars>>

\* No request is awaited and no listener callback is running.
Idle ==
  /\ pending = << >>
  /\ authTask = AuthIdle
  /\ listenerTasks = << >>

\* Nothing is in flight and every active subscription has delivered the
\* current documents.
Quiet ==
  /\ Idle
  /\ subscriptions.timeEntries > 0 => allTimeEntries = UserEntries(userId)
  /\ subscriptions.projects > 0
       => projects = UserProjects(userId) /\ projectNames = UserProjectNames(userId)
  /\ subscriptions.project > 0 /\ selectedProjectId \in UserProjects(userId)
       => projectName = UserProjectNames(userId)[selectedProjectId]

\* The auth service, the store and the listeners run at any time.  The user
\* signs out at any time, works on the entries of a project once the previous
\* request has completed, and fills the other forms, presses their buttons and
\* navigates once the snapshots have been delivered as well.
NextForms ==
  \/ \E i \in 1 .. MaxListenerTasks : authListener_start(i)
  \/ \E i \in 1 .. MaxListenerTasks : authListener_getDoc(i)
  \/ \E i \in 1 .. MaxListenerTasks : authListener_afterGetDoc(i)
  \/ \E i \in 1 .. MaxListenerTasks : authListener_afterSetDoc(i)
  \/ Quiet /\ \E v \in EmailInputs : (setEmail(v)) /\ AuthInputFrame
  \/ Quiet /\ \E v \in PasswordInputs : (setPassword(v)) /\ AuthInputFrame
  \/ Quiet /\ \E v \in FirstNameInputs : (setFirstName(v)) /\ AuthInputFrame
  \/ Quiet /\ \E v \in LastNameInputs : (setLastName(v)) /\ AuthInputFrame
  \/ Quiet /\ setIsLoginMode /\ AuthInputFrame
  \/ Quiet /\ handleAuthAction_emptyCredentials
  \/ Quiet /\ handleAuthAction_emptyNames
  \/ Quiet /\ handleAuthAction
  \/ signIn_resolved
  \/ createUser_resolved
  \/ handleAuthAction_afterSignIn
  \/ handleAuthAction_catch
  \/ handleAuthAction_afterCreateUser
  \/ handleAuthAction_afterSetDoc
  \/ signOut
  \/ Quiet /\ \E v \in NameInputs : setNewProjectName(v)
  \/ Quiet /\ \E p \in Projects : startEditingProject(p)
  \/ Quiet /\ \E v \in NameInputs : setEditingProjectName(v)
  \/ Quiet /\ cancelEditingProject
  \/ Quiet /\ addProject_rejected
  \/ Quiet /\ \E ok \in BOOLEAN : addProject(ok)
  \/ addProject_then
  \/ addProject_catch
  \/ Quiet /\ updateProject_rejected
  \/ Quiet /\ \E ok \in BOOLEAN : updateProject(ok)
  \/ updateProject_then
  \/ updateProject_catch
  \/ SnapshotProjects
       /\ UNCHANGED <<authVars, authFormVars, storeProjectNames, newProjectName,
                      editingProjectId, editingProjectName, projectName, calendarVars>>
  \/ SnapshotTimeEntries /\ Rest
  \/ SnapshotProject
  \/ Quiet /\ PageShown /\ \E p \in Projects : (viewDetails(p)) /\ DetailMounted
  \/ Quiet /\ PageShown /\ backToProjects /\ DetailUnmounted
  \/ Idle /\ PageShown /\ \E e \in EntryIds : (startEditingTimeEntry(e)) /\ Rest
  \/ Idle /\ PageShown
       /\ \E v \in LocalTimes \cup {EMPTY} : (setEditingTimeEntryClockIn(v)) /\ Rest
  \/ Idle /\ PageShown /\ cancelEdit /\ Rest
  \/ Idle /\ PageShown /\ handleUpdateTimeEntry_emptyClockIn /\ Rest
  \/ Idle /\ PageShown /\ handleUpdateTimeEntry(TRUE) /\ Rest
  \/ handleUpdateTimeEntry_then /\ Rest
  \/ Idle /\ PageShown /\ \E e \in EntryIds : (deleteTimeEntry(e)) /\ Rest
  \/ handleModalConfirm(TRUE) /\ Rest
  \/ deleteTimeEntry_then /\ Rest
  \/ handleModalClose /\ Rest

SpecForms == InitForms /\ [][NextForms]_vars

\* ------------------------------------------------------------ two accounts
\* The application starts with both accounts registered; TheUser has a
\* project and two time entries.
InitIdentities == InitForms /\ registered

\* One user signs in, looks at the list and at a project and signs out, and
\* the other one signs in on the same page; nothing is written.
NextIdentities ==
  \/ \E i \in 1 .. MaxListenerTasks : authListener_start(i)
  \/ \E i \in 1 .. MaxListenerTasks : authListener_getDoc(i)
  \/ \E i \in 1 .. MaxListenerTasks : authListener_afterGetDoc(i)
  \/ Idle /\ \E v \in {"e", OtherEmail} : (setEmail(v)) /\ AuthInputFrame
  \/ Idle /\ setPassword("pw") /\ AuthInputFrame
  \/ Idle /\ handleAuthAction
  \/ email # OtherEmail /\ signIn_resolved
  \/ signInOther_resolved
  \/ handleAuthAction_afterSignIn
  \/ signOut
  \/ SnapshotProjects
       /\ UNCHANGED <<authVars, authFormVars, storeProjectNames, newProjectName,
                      editingProjectId, editingProjectName, projectName, calendarVars>>
  \/ SnapshotTimeEntries /\ Rest
  \/ SnapshotProject
  \/ Idle /\ PageShown /\ \E p \in Projects : (viewDetails(p)) /\ DetailMounted
  \/ Idle /\ PageShown /\ backToProjects /\ DetailUnmounted
  \/ ModalDisplayed /\ handleModalClose /\ Rest

SpecIdentities == InitIdentities /\ [][NextIdentities]_vars

\* --------------------------------------------------------------- start-up
ConfigurationError == "Application configuration error"

\* The state the mount effect of App leaves (App.js 33-84), the account being
\* registered.  With the Firebase configuration present the auth state
\* listener is about to be called for the first time, with the user of the
\* session the browser kept or with no user; the profile document of the
\* account exists or was never written.  With apiKey or projectId missing
\* the effect raises the modal and returns (App.js 44-49): no listener is
\* registered.
AppMounted(configured) ==
  /\ now = MaxTime
  /\ registered = TRUE
  /\ storeProjects = {"p1"}
  /\ storeProjectNames = [p \in {"p1"} |-> "n"]
  /\ storeEntries = (1 :> Entry("p1", 0, 1, getLocalDateString(0), ""))
  /\ usedIds = {1}
  /\ storeProfile \in {NoProfile, Profile("F", "L")}
  /\ pending = << >>
  /\ projects = {}
  /\ projectNames = << >>
  /\ allTimeEntries = << >>
  /\ showModal = ~configured
  /\ modalMessage = (IF configured THEN "" ELSE ConfigurationError)
  /\ modalConfirmAction = NoAction
  /\ currentView = "projects"
  /\ selectedProjectId = ""
  /\ clockedIn = FALSE
  /\ currentEntryId = NULL
  /\ showEditTimeEntryModal = FALSE
  /\ editingTimeEntryId = NULL
  /\ editingTimeEntryClockIn = EMPTY
  /\ editingTimeEntryClockOut = EMPTY
  /\ editingTimeEntryNotes = ""
  /\ authUser \in {NoUser, TheUser}
  /\ authTask = AuthIdle
  /\ listenerTasks = (IF configured THEN <<ListenerTask(authUser)>> ELSE << >>)
  /\ subscriptions = NoSubscriptions
  /\ userId = NoUser
  /\ isAuthReady = FALSE
  /\ userProfile = NoProfile
  /\ email = "" /\ password = "" /\ firstName = "" /\ lastName = ""
  /\ isLoginMode = TRUE
  /\ newProjectName = ""
  /\ editingProjectId = ""
  /\ editingProjectName = ""
  /\ projectName = ""
  /\ selectedCalendarDate = 0
  /\ selectedFilterDate = NULL
  /\ filteredTimeEntries = << >>
  /\ rendered = NoRender

\* Sign-in, sign-out, navigation and the listener callbacks, whose reads and
\* writes of the profile may be rejected.
NextStartup ==
  \/ NextIdentities
  \/ \E i \in 1 .. MaxListenerTasks : authListener_afterSetDoc(i)
  \/ \E i \in 1 .. MaxListenerTasks : authListener_getDoc_rejected(i)
  \/ \E i \in 1 .. MaxListenerTasks : authListener_afterGetDoc_setDocRejected(i)
  \/ \E i \in 1 .. MaxListenerTasks : authListener_rejected(i)

InitStartup == AppMounted(TRUE)

SpecStartup == InitStartup /\ [][NextStartup]_vars

\* The same application started with or without its Firebase configuration.
InitAnyConfiguration == \E configured \in BOOLEAN : AppMounted(configured)

SpecAnyConfiguration == InitAnyConfiguration /\ [][NextStartup]_vars

\* ------------------------------------------------------------ the calendar
\* A local calendar date is a day number; day 0 is a Monday and the first day
\* of month 0, and every month of the model has MonthLen days.
MonthLen == 4
MaxMonth == 2        \* last month the calendar is moved to
DaysPerWeek == 7

\* Date.prototype.getDay of a local date: 0 is Sunday.
getDay(day) == (day + 1) % DaysPerWeek

\* getFullYear / getMonth of a local date, as one month number, and getDate.
MonthOf(day) == day \div MonthLen

\* new Date(year, month, day) and setHours(0, 0, 0, 0): local midnight, as an
\* instant.
LocalMidnight(day) == day * DayLen - TZOffset

\* toISOString().split('T')[0]: the UTC calendar date of an instant.
UTCDateString(t) == t \div DayLen

\* An Invalid Date: every comparison with its time value (NaN) is false.  The
\* value lies before local midnight of day 0, so it is no instant of the
\* calendar.
InvalidDate == NULL - DayLen

\* new Date(<string of getLocalDateString>).  The string is MM-DD-YYYY
\* (App.js 14), which is not the ISO format: what the constructor makes of it
\* is left to the engine, local midnight of that date in some, an Invalid
\* Date in others.
ParsedDateStrings(dateString) == {LocalMidnight(dateString), InvalidDate}

\* ------------------------------------------------------------ aggregation
\* array.reduce((sum, x) => sum + term[x], 0) over the ids in list order.
RECURSIVE Reduce(_, _)
Reduce(term, ids) ==
  IF ids = << >> THEN 0 ELSE term[ids[1]] + Reduce(term, Tail1(ids))

\* The ids of a collection in the order of the snapshot.
RECURSIVE Listed(_)
Listed(S) == IF S = {} THEN << >> ELSE <<Min(S)>> \o Listed(S \ {Min(S)})

\* array.filter(pred), for ids where keep[id] holds.
RECURSIVE Filter(_, _)
Filter(keep, ids) ==
  IF ids = << >> THEN << >>
  ELSE (IF keep[ids[1]] THEN <<ids[1]>> ELSE << >>) \o Filter(keep, Tail1(ids))

\* (mutant) calculateEntryDuration counting an open entry up to the instant 0
calculateEntryDuration_openCounted(entry) ==
  IF entry.clockOutTime # NULL
  THEN entry.clockOutTime - entry.clockInTime
  ELSE 0 - entry.clockInTime

\* (mutant) calculateEntryDuration counting whole hours only
calculateEntryDuration_wholeHours(entry) ==
  IF entry.clockInTime # NULL /\ entry.clockOutTime # NULL
  THEN ((entry.clockOutTime - entry.clockInTime) \div (60 * 60 * 1000)) * (60 * 60 * 1000)
  ELSE 0

\* calculateEntryDuration (App.js 999-1004); the same expression is inlined
\* in the other totals.
calculateEntryDuration(entry) ==
  IF entry.clockInTime # NULL /\ entry.clockOutTime # NULL
  THEN entry.clockOutTime - entry.clockInTime
  ELSE 0

Durations(entries) == [e \in DOMAIN entries |-> calculateEntryDuration(entries[e])]

\* calculateDailyTotalAllProjects (App.js 395-403)
calculateDailyTotalAllProjects(entries, dateString) ==
  Reduce(Durations(entries),
         Filter([e \in DOMAIN entries |-> entries[e].date = dateString],
                Listed(DOMAIN entries)))

\* The week key of an instant (App.js 409-414, 466-470): the start of its
\* local week, Monday first, as an ISO date.
WeekKey(t) ==
  LET entryDate == getLocalDateString(t)
      dayOfWeek == (getDay(entryDate) + 6) % DaysPerWeek
      startOfWeek == LocalMidnight(entryDate - dayOfWeek)
  IN  UTCDateString(startOfWeek)

\* The month key of an instant (App.js 434-437, 478-480).
MonthKey(t) == MonthOf(getLocalDateString(t))

Closed(entries) ==
  {e \in DOMAIN entries : entries[e].clockInTime # NULL /\ entries[e].clockOutTime # NULL}

\* calculateWeeklyTotalsAllProjects (App.js 405-428): week key -> total.
calculateWeeklyTotalsAllProjects(entries) ==
  [k \in {WeekKey(entries[e].clockInTime) : e \in Closed(entries)} |->
     Reduce([e \in DOMAIN entries |-> entries[e].clockOutTime - entries[e].clockInTime],
            Filter([e \in DOMAIN entries |->
                      e \in Closed(entries) /\ WeekKey(entries[e].clockInTime) = k],
                   Listed(DOMAIN entries)))]

\* calculateMonthlyTotalsAllProjects (App.js 430-450): month key -> total.
calculateMonthlyTotalsAllProjects(entries) ==
  [k \in {MonthKey(entries[e].clockInTime) : e \in Closed(entries)} |->
     Reduce([e \in DOMAIN entries |-> entries[e].clockOutTime - entries[e].clockInTime],
            Filter([e \in DOMAIN entries |->
                      e \in Closed(entries) /\ MonthKey(entries[e].clockInTime) = k],
                   Listed(DOMAIN entries)))]

\* totals.find(x => x.key === key)?.totalDurationMs || 0 (App.js 475, 481)
TotalAt(totals, key) == IF key \in DOMAIN totals THEN totals[key] ELSE 0

\* What ProfileSection shows (App.js 462-482) at the instant t.
ProfileTotals(entries, t) ==
  [kind |-> "list",
   todayTotal |-> calculateDailyTotalAllProjects(entries, getLocalDateString(t)),
   weeklyTotals |-> calculateWeeklyTotalsAllProjects(entries),
   monthlyTotals |-> calculateMonthlyTotalsAllProjects(entries),
   currentWeekTotal |-> TotalAt(calculateWeeklyTotalsAllProjects(entries), WeekKey(t)),
   currentMonthTotal |-> TotalAt(calculateMonthlyTotalsAllProjects(entries), MonthKey(t))]


\* ------------------------------------------------- ProjectDetail: the totals
\* array.sort((a, b) => b.clockInTime - a.clockInTime): clock-in descending,
\* entries with the same clock-in in the order they had.
RECURSIVE SortedByClockInDesc(_, _)
SortedByClockInDesc(entries, S) ==
  IF S = {} THEN << >>
  ELSE LET first == CHOOSE e \in S : \A y \in S :
                      \/ entries[e].clockInTime > entries[y].clockInTime
                      \/ entries[e].clockInTime = entries[y].clockInTime /\ e <= y
       IN  <<first>> \o SortedByClockInDesc(entries, S \ {first})

\* The entries the effect lists (App.js 849, 856-860): those of the project,
\* of the selected date when there is one.
FilteredEntries(entries, p, filterDate) ==
  SortedByClockInDesc(entries,
    {e \in ProjectEntryIds(entries, p) : filterDate # NULL => entries[e].date = filterDate})

Range(seq) == {seq[i] : i \in DOMAIN seq}

\* (mutant) groupedEntries keeping the last entry of each date only
groupedEntries_lastOnly(entries, listed) ==
  [k \in {getLocalDateString(entries[e].clockInTime) : e \in Range(listed)} |->
     LET group == Filter([e \in DOMAIN entries |->
                            getLocalDateString(entries[e].clockInTime) = k], listed)
     IN  <<group[Len(group)]>>]

\* The reduce of groupedEntries (App.js 1006-1013) for a calendar DateKey:
\* date key -> the listed entries whose clock-in has that key.
GroupedBy(DateKey(_), entries, listed) ==
  [k \in {DateKey(entries[e].clockInTime) : e \in Range(listed)} |->
     Filter([e \in DOMAIN entries |-> DateKey(entries[e].clockInTime) = k], listed)]

\* groupedEntries (App.js 1006-1013): date key -> the listed entries clocked
\* in on that local date.
groupedEntries(entries, listed) == GroupedBy(getLocalDateString, entries, listed)

\* The map of dailyTotals (App.js 1015-1019) over the groups: date key ->
\* total.
TotalsOf(entries, groups) ==
  [k \in DOMAIN groups |-> Reduce(Durations(entries), groups[k])]

\* dailyTotals (App.js 1015-1019): date key -> total.
dailyTotals(entries, listed) == TotalsOf(entries, groupedEntries(entries, listed))

\* The days of the month the calendar shows (App.js 1021-1032).
CalendarDays(calendarDate) ==
  LET month == MonthOf(getLocalDateString(calendarDate))
  IN  (month * MonthLen) .. (month * MonthLen + MonthLen - 1)

\* The total in the cell of a day (App.js 1183-1188).
CellTotal(entries, p, day) ==
  Reduce(Durations(entries),
         Filter([e \in DOMAIN entries |->
                   /\ entries[e].date = getLocalDateString(LocalMidnight(day))
                   /\ entries[e].projectId = p],
                Listed(DOMAIN entries)))

\* The sum both selected totals make (App.js 1076-1086, 1100-1110) over the
\* entries of the project clocked in from start on and before end.
TotalBetween(entries, p, start, end, endIncluded) ==
  Reduce([e \in DOMAIN entries |->
            IF /\ entries[e].clockInTime # NULL /\ entries[e].clockOutTime # NULL
               /\ start # InvalidDate
               /\ entries[e].clockInTime >= start
               /\ \/ entries[e].clockInTime < end
                  \/ endIncluded /\ entries[e].clockInTime = end
            THEN entries[e].clockOutTime - entries[e].clockInTime
            ELSE 0],
         Filter([e \in DOMAIN entries |-> entries[e].projectId = p], Listed(DOMAIN entries)))

\* (mutant) getSelectedWeekTotal with the end of the week included
getSelectedWeekTotal_endIncluded(entries, p, referenceDate) ==
  IF referenceDate = InvalidDate
  THEN 0
  ELSE LET day == getLocalDateString(referenceDate)
           dayOfWeek == (getDay(day) + 6) % DaysPerWeek
           startOfWeek == LocalMidnight(day - dayOfWeek)
           endOfWeek == LocalMidnight(day - dayOfWeek + DaysPerWeek)
       IN  TotalBetween(entries, p, startOfWeek, endOfWeek, TRUE)

\* getSelectedWeekTotal (App.js 1063-1087), given its referenceDate.
getSelectedWeekTotal(entries, p, referenceDate) ==
  IF referenceDate = InvalidDate
  THEN 0
  ELSE LET day == getLocalDateString(referenceDate)
           dayOfWeek == (getDay(day) + 6) % DaysPerWeek
           startOfWeek == LocalMidnight(day - dayOfWeek)
           endOfWeek == LocalMidnight(day - dayOfWeek + DaysPerWeek)
       IN  TotalBetween(entries, p, startOfWeek, endOfWeek, FALSE)

\* getSelectedMonthTotal (App.js 1090-1111), given its referenceDate.
getSelectedMonthTotal(entries, p, referenceDate) ==
  IF referenceDate = InvalidDate
  THEN 0
  ELSE LET month == MonthOf(getLocalDateString(referenceDate))
           startOfMonth == LocalMidnight(month * MonthLen)
           endOfMonth == LocalMidnight((month + 1) * MonthLen)
       IN  TotalBetween(entries, p, startOfMonth, endOfMonth, FALSE)

\* The reference dates the two selected totals can get (App.js 1064-1066,
\* 1091-1093).
ReferenceDates(filterDate, calendarDate) ==
  IF filterDate # NULL THEN ParsedDateStrings(filterDate) ELSE {calendarDate}

\* What ProjectDetail shows with the reference date its engine makes.
DetailTotals(entries, p, calendarDate, listed, referenceDate) ==
  [kind |-> "detail",
   dailyTotals |-> dailyTotals(entries, listed),
   cellTotals |-> [day \in CalendarDays(calendarDate) |-> CellTotal(entries, p, day)],
   referenceDate |-> referenceDate,
   weekTotal |-> getSelectedWeekTotal(entries, p, referenceDate),
   monthTotal |-> getSelectedMonthTotal(entries, p, referenceDate)]

\* The render of ProjectDetail that follows a change of its state.
DetailRendered ==
  \E referenceDate \in ReferenceDates(selectedFilterDate', selectedCalendarDate') :
    rendered' = DetailTotals(allTimeEntries', selectedProjectId', selectedCalendarDate',
                             filteredTimeEntries', referenceDate)

\* The effect of ProjectDetail (App.js 848-869) has something to do: no date
\* is selected, or the list is not the one of the selected date.
EffectDue ==
  /\ currentView = "detail"
  /\ \/ selectedFilterDate = NULL
     \/ filteredTimeEntries #
          FilteredEntries(allTimeEntries, selectedProjectId, selectedFilterDate)

\* The effect of ProjectDetail (App.js 848-869): today becomes the selected
\* date when there is none, the list is filtered with the date of this
\* render, the clock state is derived.
DetailEffect ==
  /\ EffectDue
  /\ selectedFilterDate' =
       IF selectedFilterDate = NULL
       THEN getLocalDateString(LocalMidnight(getLocalDateString(now)))
       ELSE selectedFilterDate
  /\ filteredTimeEntries' =
       FilteredEntries(allTimeEntries, selectedProjectId, selectedFilterDate)
  /\ ClockEffect(allTimeEntries, selectedProjectId)
  /\ UNCHANGED <<now, storeVars, usedIds, pending, snapVars, modalVars, navVars, editVars,
                 authVars, authFormVars, projectVars, selectedCalendarDate>>
  /\ DetailRendered

\* What the calendar's handlers leave alone.
CalendarFrame ==
  UNCHANGED <<now, storeVars, usedIds, pending, snapVars, modalVars, navVars, clockVars,
              editVars, authVars, authFormVars, projectVars, filteredTimeEntries>>

\* handleDateClick (App.js 1035-1042) on the cell of a day of the month shown.
handleDateClick(day) ==
  /\ PageReachable
  /\ currentView = "detail"
  /\ day \in CalendarDays(selectedCalendarDate)
  /\ selectedFilterDate' = getLocalDateString(LocalMidnight(day))
  /\ UNCHANGED selectedCalendarDate
  /\ CalendarFrame
  /\ DetailRendered

\* goToPreviousMonth (App.js 1044-1051); the calendar of the model ends at
\* month 0.
goToPreviousMonth ==
  /\ PageReachable
  /\ currentView = "detail"
  /\ MonthOf(getLocalDateString(selectedCalendarDate)) > 0
  /\ selectedCalendarDate' = selectedCalendarDate - MonthLen * DayLen
  /\ selectedFilterDate' = NULL
  /\ CalendarFrame
  /\ DetailRendered

\* goToNextMonth (App.js 1053-1060); the calendar of the model ends at month
\* MaxMonth.
goToNextMonth ==
  /\ PageReachable
  /\ currentView = "detail"
  /\ MonthOf(getLocalDateString(selectedCalendarDate)) < MaxMonth
  /\ selectedCalendarDate' = selectedCalendarDate + MonthLen * DayLen
  /\ selectedFilterDate' = NULL
  /\ CalendarFrame
  /\ DetailRendered

\* "Show All Entries" (App.js 1206-1215), rendered when a date is selected.
showAllEntries ==
  /\ PageReachable
  /\ currentView = "detail"
  /\ selectedFilterDate # NULL
  /\ selectedFilterDate' = NULL
  /\ UNCHANGED selectedCalendarDate
  /\ CalendarFrame
  /\ DetailRendered

\* ------------------------------------------------------- totals and calendar
\* The instants entries are clocked in at: the first instant of month 1, the
\* last instant of week 0, the first of week 1 and the first of month 2.
ClockIns ==
  {LocalMidnight(MonthLen), LocalMidnight(DaysPerWeek) - 1, LocalMidnight(DaysPerWeek),
   LocalMidnight(2 * MonthLen)}

\* Today: the Sunday of week 0.
Today == LocalMidnight(DaysPerWeek - 1) + 1

\* The entries a snapshot can hold: open or closed, in either project, with
\* the date field of the clock-in or, when the clock passed midnight between
\* the two readings of handleClockIn, of the day after.
EntryInputs ==
  UNION {UNION {{Entry(p, ci, co, d, "") :
                   co \in {NULL, ci + 1, ci + DayLen},
                   d \in {getLocalDateString(ci), getLocalDateString(ci) + 1}} :
                ci \in ClockIns} : p \in Projects}

\* A signed-in user at the project list, with the time entries of the last
\* snapshot, on the Sunday of week 0; the list is about to be rendered.
InitTotals ==
  /\ now = Today
  /\ storeProjects = Projects
  /\ \E n \in 1 .. MaxEntries : storeEntries \in [1 .. n -> EntryInputs]
  /\ usedIds = DOMAIN storeEntries
  /\ pending = << >>
  /\ projects = storeProjects
  /\ allTimeEntries = storeEntries
  /\ showModal = FALSE
  /\ modalMessage = ""
  /\ modalConfirmAction = NoAction
  /\ currentView = "projects"
  /\ selectedProjectId = ""
  /\ clockedIn = FALSE
  /\ currentEntryId = NULL
  /\ showEditTimeEntryModal = FALSE
  /\ editingTimeEntryId = NULL
  /\ editingTimeEntryClockIn = EMPTY
  /\ editingTimeEntryClockOut = EMPTY
  /\ editingTimeEntryNotes = ""
  /\ registered = TRUE
  /\ authUser = TheUser
  /\ storeProfile = Profile("F", "L")
  /\ authTask = AuthIdle
  /\ listenerTasks = << >>
  /\ subscriptions = AppSubscriptions
  /\ userId = TheUser
  /\ isAuthReady = TRUE
  /\ userProfile = Profile("F", "L")
  /\ email = "" /\ password = "" /\ firstName = "" /\ lastName = ""
  /\ isLoginMode = TRUE
  /\ newProjectName = ""
  /\ editingProjectId = ""
  /\ editingProjectName = ""
  /\ projectName = ""
  /\ storeProjectNames = [p \in Projects |-> "n"]
  /\ projectNames = storeProjectNames
  /\ selectedCalendarDate = 0
  /\ selectedFilterDate = NULL
  /\ filteredTimeEntries = << >>
  /\ rendered = NoRender

\* ProjectDetail mounts with the project subscribed (its name is delivered
\* with the mount), the calendar on today and no date selected (App.js
\* 807-812); ProjectList unmounts.
DetailMountedToday ==
  /\ selectedCalendarDate' = now
  /\ selectedFilterDate' = NULL
  /\ filteredTimeEntries' = << >>
  /\ subscriptions' = ProjectSubscribed(subscriptions)
  /\ projectName' = storeProjectNames[selectedProjectId']
  /\ UNCHANGED <<registered, authUser, storeProfile, authTask, listenerTasks, userId,
                 isAuthReady, userProfile, authFormVars, storeProjectNames, projectNames,
                 newProjectName, editingProjectId, editingProjectName>>
  /\ DetailRendered

\* ProjectDetail unmounts and the list, with ProfileSection, is rendered.
DetailUnmountedToList ==
  /\ selectedCalendarDate' = 0
  /\ selectedFilterDate' = NULL
  /\ filteredTimeEntries' = << >>
  /\ subscriptions' = ProjectUnsubscribed(subscriptions)
  /\ projectName' = ""
  /\ UNCHANGED <<registered, authUser, storeProfile, authTask, listenerTasks, userId,
                 isAuthReady, userProfile, authFormVars, storeProjectNames, projectNames,
                 newProjectName, editingProjectId, editingProjectName>>
  /\ rendered' = ProfileTotals(allTimeEntries, now)

\* The render of the project list with ProfileSection (App.js 462-482) that
\* follows the snapshot.
ProfileSectionRendered ==
  /\ currentView = "projects"
  /\ rendered = NoRender
  /\ rendered' = ProfileTotals(allTimeEntries, now)
  /\ UNCHANGED <<now, storeVars, usedIds, pending, snapVars, modalVars, navVars, clockVars,
                 editVars, authVars, authFormVars, projectVars, selectedCalendarDate,
                 selectedFilterDate, filteredTimeEntries>>

\* The user looks at the totals: opens a project, moves the calendar, selects
\* and clears dates, goes back; the effect runs before the next click.
NextTotals ==
  \/ ProfileSectionRendered
  \/ rendered # NoRender /\ ~EffectDue
       /\ \E p \in Projects : (viewDetails(p)) /\ DetailMountedToday
  \/ ~EffectDue /\ backToProjects /\ DetailUnmountedToList
  \/ DetailEffect
  \/ ~EffectDue /\ \E day \in CalendarDays(selectedCalendarDate) : handleDateClick(day)
  \/ ~EffectDue /\ goToPreviousMonth
  \/ ~EffectDue /\ goToNextMonth
  \/ ~EffectDue /\ showAllEntries

SpecTotals == InitTotals /\ [][NextTotals]_vars

\* ------------------------------------------------- wall-clock scenarios
\* The calendar of the scenarios: instants are milliseconds (Date.getTime)
\* counted from 2024-01-15T00:00 local time, and run to the first days of
\* February 2024.
Minute == 60 * 1000
Hour == 60 * Minute
Day == 24 * Hour

\* The instant of hh:mm local time on the given day of January 2024 (day 32
\* is February 1).
At(dayOfJanuary, hh, mm) == (dayOfJanuary - 15) * Day + hh * Hour + mm * Minute

\* Date.prototype.getFullYear / getMonth / getDate: the local calendar fields
\* of an instant.
getFullYear(dateObj) == 2024
getMonth(dateObj) == IF 15 + dateObj \div Day <= 31 THEN 0 ELSE 1
getDate(dateObj) ==
  IF 15 + dateObj \div Day <= 31 THEN 15 + dateObj \div Day ELSE 15 + dateObj \div Day - 31

\* n.toString().padStart(2, '0')
padStart2(n) == IF n < 10 THEN "0" \o ToString(n) ELSE ToString(n)

\* getLocalDateString (App.js 10-15), as the text it returns.
LocalDateString(dateObj) ==
  padStart2(getMonth(dateObj) + 1) \o "-" \o padStart2(getDate(dateObj)) \o "-"
    \o ToString(getFullYear(dateObj))

\* The clock-ins of the scenarios: 09:00, 14:00 and 23:50 on January 15, the
\* last millisecond of January 15, and 23:50 on January 31.
ScenarioClockIns ==
  {At(15, 9, 0), At(15, 14, 0), At(15, 23, 50), At(16, 0, 0) - 1, At(31, 23, 50)}

\* How long after the clock-in the clock-out is made.
ScenarioDurations == {20 * Minute, Hour, Hour + 30 * Minute}

\* The entries handleClockIn and handleClockOut make (App.js 882-892,
\* 912-916): clocked in at ci, the date read from the clock right after (the
\* same millisecond or the next), open or clocked out d later.
ScenarioEntries ==
  UNION {UNION {{Entry(p, ci, co, LocalDateString(r), "") :
                   co \in {NULL} \cup {ci + d : d \in ScenarioDurations}} :
                r \in {ci, ci + 1}} :
         p \in Projects, ci \in ScenarioClockIns}

\* The dates a calendar cell or the default of today selects.
ScenarioDates == {LocalDateString(At(d, 0, 0)) : d \in {15, 16, 31, 32}}

\* The entries a scenario holds.
MaxScenarioEntries == 2

\* ProjectDetail of project p1 on January 15, before the first snapshot of
\* timeEntries: the effect has selected today and the list is empty.
InitScenarios ==
  /\ now = At(15, 0, 0)
  /\ storeProjects = Projects
  /\ storeEntries = << >>
  /\ usedIds = {}
  /\ pending = << >>
  /\ projects = storeProjects
  /\ allTimeEntries = << >>
  /\ showModal = FALSE
  /\ modalMessage = ""
  /\ modalConfirmAction = NoAction
  /\ currentView = "detail"
  /\ selectedProjectId = "p1"
  /\ clockedIn = FALSE
  /\ currentEntryId = NULL
  /\ showEditTimeEntryModal = FALSE
  /\ editingTimeEntryId = NULL
  /\ editingTimeEntryClockIn = EMPTY
  /\ editingTimeEntryClockOut = EMPTY
  /\ editingTimeEntryNotes = ""
  /\ registered = TRUE
  /\ authUser = TheUser
  /\ storeProfile = Profile("F", "L")
  /\ authTask = AuthIdle
  /\ listenerTasks = << >>
  /\ subscriptions = [AppSubscriptions EXCEPT !.project = 1]
  /\ userId = TheUser
  /\ isAuthReady = TRUE
  /\ userProfile = Profile("F", "L")
  /\ email = "" /\ password = "" /\ firstName = "" /\ lastName = ""
  /\ isLoginMode = TRUE
  /\ newProjectName = ""
  /\ editingProjectId = ""
  /\ editingProjectName = ""
  /\ projectName = "n"
  /\ storeProjectNames = [p \in Projects |-> "n"]
  /\ projectNames = storeProjectNames
  /\ selectedCalendarDate = now
  /\ selectedFilterDate = LocalDateString(now)
  /\ filteredTimeEntries = << >>
  /\ rendered = NoRender

\* A snapshot of timeEntries (App.js 102-113) that carries one more entry.
ScenarioSnapshot(entry) ==
  /\ Len(allTimeEntries) < MaxScenarioEntries
  /\ storeEntries' = Append(storeEntries, entry)
  /\ allTimeEntries' = Append(allTimeEntries, entry)
  /\ usedIds' = usedIds \cup {Len(allTimeEntries) + 1}
  /\ rendered' = NoRender
  /\ UNCHANGED <<now, storeProjects, pending, projects, modalVars, navVars, clockVars,
                 editVars, authVars, authFormVars, projectVars, selectedCalendarDate,
                 selectedFilterDate, filteredTimeEntries>>

\* The list and the daily totals of ProjectDetail for a selected date: the
\* effect (App.js 848-860) lists the entries of the project whose date field
\* is that date, latest clock-in first, and the render groups and totals the
\* list (App.js 1006-1019).
ScenarioListed(dateString) ==
  LET listed == SortedByClockInDesc(allTimeEntries,
                  {e \in ProjectEntryIds(allTimeEntries, selectedProjectId) :
                     allTimeEntries[e].date = dateString})
  IN  /\ allTimeEntries # << >>
      /\ selectedFilterDate' = dateString
      /\ filteredTimeEntries' = listed
      /\ ClockEffect(allTimeEntries, selectedProjectId)
      /\ rendered' =
           [kind |-> "scenario",
            groupedEntries |-> GroupedBy(LocalDateString, allTimeEntries, listed),
            dailyTotals |-> TotalsOf(allTimeEntries,
                                     GroupedBy(LocalDateString, allTimeEntries, listed))]
      /\ UNCHANGED <<now, storeVars, usedIds, pending, snapVars, modalVars, navVars,
                     editVars, authVars, authFormVars, projectVars, selectedCalendarDate>>

NextScenarios ==
  \/ \E entry \in ScenarioEntries : ScenarioSnapshot(entry)
  \/ \E dateString \in ScenarioDates : ScenarioListed(dateString)

SpecScenarios == InitScenarios /\ [][NextScenarios]_vars

\* ================================================================ claims
\* A request of the given kind was issued in this step.
Issued(kind) ==
  /\ Len(pending') = Len(pending) + 1
  /\ pending'[Len(pending')].kind = kind

\* The message modal came up with message m in this step.
Raised(m) ==
  /\ showModal' /\ modalMessage' = m
  /\ ~(showModal /\ modalMessage = m)

\* C1: after any sequence of clock-in, clock-out, manual edit and entry
\* deletion by one user, each project has at most one time entry whose
\* clockOutTime is null.
C1_AtMostOneOpenEntry ==
  \A p \in Projects : Cardinality(OpenEntryIds(storeEntries, p)) <= 1

\* C2 as stated: whenever the store already holds an open entry for a project,
\* a clock-in on that project creates no new time entry, for every
\* interleaving of clicks, write completions and snapshot deliveries.
C2_NoClockInWhileStoreHoldsOpenEntry ==
  [][\A p \in Projects :
       OpenEntryIds(storeEntries, p) # {}
         => ProjectEntryIds(storeEntries', p) \subseteq ProjectEntryIds(storeEntries, p)]_vars

\* C2 as amended: a clock-in is rejected whenever the view's clockedIn flag is
\* true: a time entry is created, and a clock-in request issued, only from a
\* ProjectDetail whose clockedIn flag is false, and then for the project viewed.
C2_NoClockInWhileFlagSet ==
  [][/\ Issued("clockIn") => (~clockedIn /\ currentView = "detail")
     /\ \A e \in (DOMAIN storeEntries') \ (DOMAIN storeEntries) :
          /\ ~clockedIn /\ currentView = "detail"
          /\ storeEntries'[e].projectId = selectedProjectId
          /\ storeEntries'[e].clockOutTime = NULL]_vars

\* C2 witness: the store holds an open entry of the project viewed, the flag
\* is set, and a clock-in attempt has just been rejected.
C2_Witness ==
  /\ showModal
  /\ modalMessage = "You are already clocked in for this project."
  /\ clockedIn
  /\ currentView = "detail"
  /\ OpenEntryIds(storeEntries, selectedProjectId) # {}

\* C3: every stored time entry whose clockOutTime is non-null has
\* clockOutTime >= clockInTime; no update path writes an earlier clock-out.
C3_ClockOutNotBeforeClockIn ==
  \A e \in DOMAIN storeEntries :
    storeEntries[e].clockOutTime # NULL
      => storeEntries[e].clockOutTime >= storeEntries[e].clockInTime

\* C4: saving an edit whose clock-out reading is earlier than its clock-in
\* reading is rejected: the validation message comes up only for such a form,
\* and then no request is issued, the store is unchanged and the edit form
\* stays open with the entered fields; an update request is issued only from
\* a form whose clock-in is filled in and whose clock-out is blank or not
\* earlier than the clock-in.
C4_EditRejectedWhenClockOutEarlier ==
  [][/\ Raised("Clock-out time cannot be before clock-in time.")
          => /\ editingTimeEntryClockOut # EMPTY
             /\ editingTimeEntryClockOut < editingTimeEntryClockIn
             /\ UNCHANGED <<storeVars, pending, editVars>>
             /\ showEditTimeEntryModal'
     /\ Issued("edit")
          => /\ showEditTimeEntryModal
             /\ editingTimeEntryClockIn # EMPTY
             /\ \/ editingTimeEntryClockOut = EMPTY
                \/ editingTimeEntryClockOut >= editingTimeEntryClockIn]_vars

\* C4 witness: the validation message is up over the open edit form, which
\* still holds a clock-out earlier than its clock-in.
C4_Witness ==
  /\ showModal
  /\ modalMessage = "Clock-out time cannot be before clock-in time."
  /\ showEditTimeEntryModal
  /\ editingTimeEntryClockOut # EMPTY
  /\ editingTimeEntryClockOut < editingTimeEntryClockIn
  /\ editingTimeEntryId \in DOMAIN storeEntries

\* C5: once no write is pending and the latest time-entry snapshot has been
\* processed, the ProjectDetail view has clockedIn true exactly when the
\* snapshot holds an open entry of the viewed project, and currentEntryId is
\* then the id of such an entry (null when there is none).
C5_ClockStateDerivedFromSnapshot ==
  (currentView = "detail" /\ pending = << >> /\ allTimeEntries = storeEntries)
    => LET open == OpenEntryIds(allTimeEntries, selectedProjectId)
       IN  /\ clockedIn <=> open # {}
           /\ IF open = {} THEN currentEntryId = NULL ELSE currentEntryId \in open

\* C6: the date of every stored time entry is the local calendar date of its
\* stored clockInTime.
C6_DateIsLocalDateOfClockIn ==
  \A e \in DOMAIN storeEntries :
    storeEntries[e].date = getLocalDateString(storeEntries[e].clockInTime)

\* C7: when a confirmed project deletion has run to its end and its store
\* requests were answered without failure, the project and every time entry
\* of that project are gone from the store, and the other projects and the
\* other time entries are unchanged.
C7_ConfirmedProjectDeletionRemoves ==
  [][(/\ pending # << >>
      /\ pending[1].kind = "deleteProject"
      /\ pending[1].applied
      /\ pending' = Tail1(pending))
       => LET p == pending[1].projectId
          IN  /\ p \notin storeProjects'
              /\ ProjectEntryIds(storeEntries', p) = {}
              /\ storeProjects' \cup {p} = storeProjects \cup {p}
              /\ \A e \in DOMAIN storeEntries :
                   storeEntries[e].projectId # p
                     => (e \in DOMAIN storeEntries' /\ storeEntries'[e] = storeEntries[e])]_vars

\* C8: a delete request is issued only by pressing Confirm on the modal that
\* is up for that very deletion, and the store loses a project or a time
\* entry only in such a step; closing the modal without a request leaves the
\* store unchanged and drops the confirm action; a confirm action is held
\* only while the modal shows the question it was raised with, so a replaced
\* or cancelled confirmation is never run later.
C8_DeleteOnlyOnConfirm ==
  [][/\ Issued("deleteEntry")
          => /\ showModal /\ modalMessage = DeleteEntryQuestion
             /\ modalConfirmAction = DeleteEntryAction(pending'[Len(pending')].id)
     /\ Issued("deleteProject")
          => /\ showModal /\ modalMessage = DeleteProjectQuestion
             /\ modalConfirmAction = DeleteProjectAction(pending'[Len(pending')].projectId)
     /\ (~(DOMAIN storeEntries \subseteq DOMAIN storeEntries')
           \/ ~(storeProjects \subseteq storeProjects'))
          => (Issued("deleteEntry") \/ Issued("deleteProject"))
     /\ (showModal /\ ~showModal' /\ Len(pending') <= Len(pending))
          => (UNCHANGED storeVars /\ modalConfirmAction' = NoAction)
     /\ modalConfirmAction' # NoAction
          => /\ showModal'
             /\ modalConfirmAction'.kind = "deleteTimeEntry"
                  => modalMessage' = DeleteEntryQuestion
             /\ modalConfirmAction'.kind = "deleteProject"
                  => modalMessage' = DeleteProjectQuestion]_vars

\* C8 witness: a time entry has been deleted by a confirmed request, which is
\* still awaiting its completion, and the modal is down again.
C8_Witness ==
  /\ ~showModal
  /\ \E i \in 1..Len(pending) :
       /\ pending[i].kind = "deleteEntry"
       /\ pending[i].applied
       /\ pending[i].id \notin DOMAIN storeEntries
       /\ pending[i].id \in usedIds

C10_ClockOutClosesTheOpenEntry ==
  [][(Issued("clockOut") /\ pending'[Len(pending')].applied)
       => /\ \/ currentEntryId \in OpenEntryIds(storeEntries, selectedProjectId)
             \/ currentEntryId \in OpenEntryIds(allTimeEntries, selectedProjectId)
          /\ currentEntryId \in DOMAIN storeEntries
          /\ storeEntries' = [storeEntries EXCEPT ![currentEntryId].clockOutTime = now']
          /\ storeProjects' = storeProjects]_vars

\* The handler started a request to the auth service in this step.
AuthRequested == authTask = AuthIdle /\ authTask'.kind \in {"signIn", "createUser"}

\* C11: a required field left empty is rejected with a message before any
\* call to the store or the auth service: a project is added or renamed only
\* with a name that is not empty after trimming, a sign-in or sign-up is sent
\* only with an email and a password, a sign-up only with first and last names
\* that are not blank, an edit is saved only with a clock-in; the step that
\* raises the message of a rejection writes nothing and sends nothing.  So
\* every stored project name is non-empty.
C11_EmptyRequiredFieldsRejected ==
  /\ [][/\ Issued("addProject") => Trim(newProjectName) # ""
        /\ Issued("updateProject") => Trim(editingProjectName) # ""
        /\ Issued("edit") => editingTimeEntryClockIn # EMPTY
        /\ AuthRequested => email # "" /\ password # ""
        /\ AuthRequested /\ authTask'.kind = "createUser"
             => Trim(firstName) # "" /\ Trim(lastName) # ""
        /\ (\/ Raised("Project name cannot be empty.")
            \/ Raised("Email and password cannot be empty.")
            \/ Raised("First Name and Last Name cannot be empty for sign up.")
            \/ Raised("Clock-in time cannot be empty."))
           => UNCHANGED <<storeVars, storeProjectNames, storeProfile, pending, registered,
                          authUser, authTask>>]_vars
  /\ [](\A p \in storeProjects : storeProjectNames[p] # "")

\* A blank name was submitted for a new project and rejected, after a
\* project had been added with a name of its own.
C11_Witness ==
  /\ showModal
  /\ modalMessage = "Project name cannot be empty."
  /\ newProjectName = " "
  /\ storeProjects = Projects
  /\ storeProjectNames["p2"] = "m"

\* The message the catch of each handler shows.
FailureMessage(kind) ==
  CASE kind = "clockIn"     -> "Failed to clock in. Please try again."
    [] kind = "clockOut"    -> "Failed to clock out. Please try again."
    [] kind = "edit"        -> "Failed to update time entry. Please try again."
    [] kind = "deleteEntry" -> "Failed to delete time entry. Please try again."
    [] OTHER                -> ""

\* The rejection of the oldest write in flight, one of a time entry, was
\* handled in this step.
WriteFailureHandled ==
  /\ pending # << >>
  /\ pending[1].kind \in {"clockIn", "clockOut", "edit", "deleteEntry"}
  /\ ~pending[1].applied
  /\ Len(pending') < Len(pending)

\* C12: a failed store write of clock-in, clock-out, edit or delete is caught
\* and its message shown; the write is not issued again (the step that
\* handles the failure sends no request) and neither the store nor the clock
\* state changes: after a failed clock-in clockedIn is false and
\* currentEntryId null, after a failed clock-out clockedIn is true and
\* currentEntryId set.
C12_FailedWriteReportedNotRetried ==
  [][WriteFailureHandled =>
       /\ showModal' /\ modalMessage' = FailureMessage(pending[1].kind)
       /\ pending' = Tail1(pending)
       /\ UNCHANGED <<storeVars, clockVars>>
       /\ pending[1].kind = "clockIn" /\ pending[1].live
            => ~clockedIn' /\ currentEntryId' = NULL
       /\ pending[1].kind = "clockOut" /\ pending[1].live
            => clockedIn' /\ currentEntryId' # NULL]_vars

\* A clock-out was rejected by the store and reported; the view still shows
\* the user clocked in on the open entry.
C12_Witness ==
  /\ showModal
  /\ modalMessage = "Failed to clock out. Please try again."
  /\ clockedIn
  /\ currentEntryId \in OpenEntryIds(storeEntries, selectedProjectId)

\* The sign-up handler wrote the profile with the names of its form in this
\* step.
SignUpProfileWritten ==
  /\ authTask.kind = "created"
  /\ authTask'.kind = "setDoc"
  /\ storeProfile' = Profile(Trim(authTask.firstName), Trim(authTask.lastName))

\* C13: signing in creates a profile only when none exists and never
\* overwrites the fields of an existing one: whatever the interleaving of the
\* auth state listener with the profile write of the sign-up handler, a
\* profile document that exists is changed by the sign-up handler only, so
\* that once all writes have completed it holds the names entered at sign-up.
C13_ExistingProfileNeverOverwritten ==
  [][storeProfile.exists /\ storeProfile' # storeProfile => SignUpProfileWritten]_vars

\* C14: after every snapshot callback allTimeEntries, and likewise projects,
\* is exactly the set of documents of that snapshot: whenever one of them
\* changes, it becomes the collection as the store holds it, without any
\* document or field of the previous client-side collection.
C14_SnapshotReplacesCollection ==
  [][/\ allTimeEntries' # allTimeEntries => allTimeEntries' = storeEntries
     /\ <<projects, projectNames>>' # <<projects, projectNames>>
          => projects' = storeProjects /\ projectNames' = storeProjectNames]_vars

\* A snapshot was delivered after one of the two entries had been deleted and
\* the other edited: the client holds the edited entry only.
C14_Witness ==
  /\ usedIds = {1, 2}
  /\ DOMAIN allTimeEntries = {1}
  /\ allTimeEntries = storeEntries
  /\ allTimeEntries[1].clockInTime = 1

\* The components that own the subscriptions are on screen.
AppSubscribes == userId # NoUser /\ isAuthReady
DetailSubscribes == userId # NoUser /\ currentView = "detail"

\* C15: a subscription lives as long as its owner: the projects and the
\* timeEntries subscriptions exist while a user is signed in and are
\* unsubscribed when userId becomes null, the project subscription exists
\* while the detail view is shown and is unsubscribed when it is left; there
\* is never more than one subscription of a kind; and while a subscription is
\* cancelled no callback of it changes the state of the client.
C15_SubscriptionsFollowTheirOwner ==
  /\ [](/\ subscriptions.projects = (IF AppSubscribes THEN 1 ELSE 0)
        /\ subscriptions.timeEntries = (IF AppSubscribes THEN 1 ELSE 0)
        /\ subscriptions.project = (IF DetailSubscribes THEN 1 ELSE 0))
  /\ [][/\ ~AppSubscribes => UNCHANGED <<projects, projectNames, allTimeEntries>>
        /\ ~DetailSubscribes => UNCHANGED projectName]_vars

\* The user signed out before the snapshot of a deletion was delivered: the
\* subscriptions are gone and the client keeps the entries it had.
C15_Witness ==
  /\ userId = NoUser
  /\ subscriptions = NoSubscriptions
  /\ DOMAIN allTimeEntries = {1, 2}
  /\ DOMAIN storeEntries # {1, 2}

\* The sum of clockOutTime - clockInTime over the entries of the set S.
RECURSIVE SumOfDurations(_, _)
SumOfDurations(entries, S) ==
  IF S = {} THEN 0
  ELSE LET e == CHOOSE x \in S : TRUE
       IN  (entries[e].clockOutTime - entries[e].clockInTime) + SumOfDurations(entries, S \ {e})

ClosedEntries(entries) == {e \in DOMAIN entries : entries[e].clockOutTime # NULL}

\* The Monday at or before a date, and the first day of its month.
MondayOf(day) == CHOOSE m \in (day - DaysPerWeek + 1) .. day : m % DaysPerWeek = 0
FirstOfMonth(day) == CHOOSE m \in (day - MonthLen + 1) .. day : m % MonthLen = 0

\* The closed entries of project p clocked in from the local midnight of the
\* day first on and before the local midnight of the day next.
ClockedInBetween(entries, p, first, next) ==
  {e \in ClosedEntries(entries) :
     /\ entries[e].projectId = p
     /\ LocalMidnight(first) <= entries[e].clockInTime
     /\ entries[e].clockInTime < LocalMidnight(next)}

\* The buckets of the two selected totals for a reference date; none for an
\* Invalid Date.
WeekBucket(entries, p, referenceDate) ==
  IF referenceDate = InvalidDate THEN {}
  ELSE ClockedInBetween(entries, p, MondayOf(getLocalDateString(referenceDate)),
                        MondayOf(getLocalDateString(referenceDate)) + DaysPerWeek)

MonthBucket(entries, p, referenceDate) ==
  IF referenceDate = InvalidDate THEN {}
  ELSE ClockedInBetween(entries, p, FirstOfMonth(getLocalDateString(referenceDate)),
                        FirstOfMonth(getLocalDateString(referenceDate)) + MonthLen)

\* C16: every total the application shows is the sum of clockOutTime -
\* clockInTime over the closed entries of its bucket, an open entry counting
\* for nothing: in ProfileSection the total of today (entries dated today),
\* of each week and month key and of the current week and month; in
\* ProjectDetail the total of each date of the list, of each calendar cell
\* (entries of the project dated that day), of the selected week and of the
\* selected month.
C16_TotalsSumClosedEntries ==
  LET es == allTimeEntries
      closed == ClosedEntries(allTimeEntries)
      p == selectedProjectId
  IN
  /\ rendered.kind = "list" =>
       /\ rendered.todayTotal =
            SumOfDurations(es, {e \in closed : es[e].date = getLocalDateString(now)})
       /\ \A e \in closed : /\ WeekKey(es[e].clockInTime) \in DOMAIN rendered.weeklyTotals
                            /\ MonthKey(es[e].clockInTime) \in DOMAIN rendered.monthlyTotals
       /\ \A k \in DOMAIN rendered.weeklyTotals :
            rendered.weeklyTotals[k] =
              SumOfDurations(es, {e \in closed : WeekKey(es[e].clockInTime) = k})
       /\ \A k \in DOMAIN rendered.monthlyTotals :
            rendered.monthlyTotals[k] =
              SumOfDurations(es, {e \in closed : MonthKey(es[e].clockInTime) = k})
       /\ rendered.currentWeekTotal =
            SumOfDurations(es, {e \in closed : WeekKey(es[e].clockInTime) = WeekKey(now)})
       /\ rendered.currentMonthTotal =
            SumOfDurations(es, {e \in closed : MonthKey(es[e].clockInTime) = MonthKey(now)})
  /\ rendered.kind = "detail" =>
       /\ \A k \in DOMAIN rendered.dailyTotals :
            rendered.dailyTotals[k] =
              SumOfDurations(es, {e \in closed \cap Range(filteredTimeEntries) :
                                    getLocalDateString(es[e].clockInTime) = k})
       /\ \A day \in DOMAIN rendered.cellTotals :
            rendered.cellTotals[day] =
              SumOfDurations(es, {e \in closed : es[e].date = day /\ es[e].projectId = p})
       /\ rendered.weekTotal = SumOfDurations(es, WeekBucket(es, p, rendered.referenceDate))
       /\ rendered.monthTotal = SumOfDurations(es, MonthBucket(es, p, rendered.referenceDate))

\* The detail view of a project with an open and a closed entry dated the
\* same day of the month shown: the cell shows the duration of the closed one.
C16_Witness ==
  /\ rendered.kind = "detail"
  /\ \E day \in DOMAIN rendered.cellTotals :
       \E e1, e2 \in DOMAIN allTimeEntries :
         /\ allTimeEntries[e1].projectId = selectedProjectId
         /\ allTimeEntries[e2].projectId = selectedProjectId
         /\ allTimeEntries[e1].date = day /\ allTimeEntries[e2].date = day
         /\ allTimeEntries[e1].clockOutTime = NULL
         /\ allTimeEntries[e2].clockOutTime # NULL
         /\ rendered.cellTotals[day] =
              allTimeEntries[e2].clockOutTime - allTimeEntries[e2].clockInTime

\* C17: every week key of the weekly aggregation denotes a Monday, the Monday
\* at or before the local date of the entry's clock-in.
C17_WeekKeysAreMondays ==
  rendered.kind = "list" =>
    /\ \A k \in DOMAIN rendered.weeklyTotals : k % DaysPerWeek = 0
    /\ \A e \in ClosedEntries(allTimeEntries) :
         MondayOf(getLocalDateString(allTimeEntries[e].clockInTime))
           \in DOMAIN rendered.weeklyTotals

\* C18: for a non-empty list of entries, the daily totals over the distinct
\* date keys add up to the durations of the closed entries of the list, each
\* entry being in the group of exactly one date.
C18_DailyTotalsPartitionTheList ==
  rendered.kind = "detail" /\ filteredTimeEntries # << >> =>
    /\ SumOfDurations([k \in DOMAIN rendered.dailyTotals |->
                         [clockInTime |-> 0, clockOutTime |-> rendered.dailyTotals[k]]],
                      DOMAIN rendered.dailyTotals)
         = SumOfDurations(allTimeEntries,
                          ClosedEntries(allTimeEntries) \cap Range(filteredTimeEntries))
    /\ \A e \in Range(filteredTimeEntries) :
         Cardinality({k \in DOMAIN groupedEntries(allTimeEntries, filteredTimeEntries) :
                        e \in Range(groupedEntries(allTimeEntries, filteredTimeEntries)[k])}) = 1

\* Two closed entries clocked in on the same local date are listed.
C18_Witness ==
  /\ rendered.kind = "detail"
  /\ Len(filteredTimeEntries) = 2
  /\ Range(filteredTimeEntries) \subseteq ClosedEntries(allTimeEntries)
  /\ Cardinality(DOMAIN rendered.dailyTotals) = 1

C20_TotalsAnchoredToCalendarDate ==
  [][(/\ currentView = "detail"
      /\ selectedFilterDate = NULL
      /\ selectedFilterDate' # NULL
      /\ rendered'.referenceDate # InvalidDate)
     => (/\ rendered'.weekTotal =
              SumOfDurations(allTimeEntries,
                             WeekBucket(allTimeEntries, selectedProjectId,
                                        selectedCalendarDate))
         /\ rendered'.monthTotal =
              SumOfDurations(allTimeEntries,
                             MonthBucket(allTimeEntries, selectedProjectId,
                                         selectedCalendarDate)))]_vars

\* The list of January 15 holds two closed entries of the project, one from
\* 09:00 to 10:30 and one from 14:00 to 15:00, and nothing else.
TwoEntriesListed ==
  /\ rendered.kind = "scenario"
  /\ Len(filteredTimeEntries) = 2
  /\ \E e1, e2 \in Range(filteredTimeEntries) :
       /\ allTimeEntries[e1].clockInTime = At(15, 9, 0)
       /\ allTimeEntries[e1].clockOutTime = At(15, 10, 30)
       /\ allTimeEntries[e2].clockInTime = At(15, 14, 0)
       /\ allTimeEntries[e2].clockOutTime = At(15, 15, 0)

\* C21 as stated: for two closed entries of one project on the same local
\* date, one from 09:00 to 10:30 and one from 14:00 to 15:00, the daily total
\* of that date is 2h, 7200000 ms.
C21_DailyTotalIsTwoHours ==
  TwoEntriesListed => rendered.dailyTotals[LocalDateString(At(15, 0, 0))] = 7200000

\* C21 as amended: for two closed entries of one project on the same local
\* date, one from 09:00 to 10:30 and one from 14:00 to 15:00, the daily total
\* of that date is 1h30 + 1h = 2h30, 9000000 ms, and it is the only daily
\* total of the list.
C21_DailyTotalIsTwoAndAHalfHours ==
  TwoEntriesListed =>
    /\ DOMAIN rendered.dailyTotals = {LocalDateString(At(15, 0, 0))}
    /\ rendered.dailyTotals[LocalDateString(At(15, 0, 0))] = 9000000

\* The two entries are listed and a daily total of January 15 is shown.
C21_Witness ==
  /\ TwoEntriesListed
  /\ LocalDateString(At(15, 0, 0)) \in DOMAIN rendered.dailyTotals

\* C22: an entry clocked in at 23:50 local time on 2024-01-15 and clocked out
\* at 00:10 on 2024-01-16 has the derived date "2024-01-15" and a duration of
\* 20 minutes, and its whole duration goes to the daily total of the
\* clock-in's local date: when it is listed it is in the group of that date
\* and of no other.
C22_MidnightEntryOnClockInDate ==
  rendered.kind = "scenario" =>
    \A e \in Range(filteredTimeEntries) :
      (/\ allTimeEntries[e].clockInTime = At(15, 23, 50)
       /\ allTimeEntries[e].clockOutTime = At(16, 0, 10))
      => (/\ allTimeEntries[e].date = "2024-01-15"
          /\ calculateEntryDuration(allTimeEntries[e]) = 20 * Minute
          /\ {k \in DOMAIN rendered.groupedEntries :
                e \in Range(rendered.groupedEntries[k])} = {"2024-01-15"})

\* The effect of ProjectDetail ran in this step: the view mounted, or a
\* snapshot of timeEntries reached the mounted view.
ClockEffectRan ==
  /\ currentView' = "detail"
  /\ (currentView # "detail" \/ allTimeEntries' # allTimeEntries)

C24_ClientDataOfSignedInUser ==
  (PageShown /\ userId = authUser) =>
    /\ projects \subseteq UserProjects(userId)
    /\ \A e \in DOMAIN allTimeEntries :
         e \in DOMAIN UserEntries(userId) /\ allTimeEntries[e] = UserEntries(userId)[e]

\* C25: no time entry of the store references a project that is absent from
\* the store, whatever the interleaving of a confirmed project deletion with
\* clock-ins on the same project; and the step in which the deletion of the
\* entries fails leaves the project document, and every entry, in the store.
C25_NoEntryOfAMissingProject ==
  /\ [](\A e \in DOMAIN storeEntries : storeEntries[e].projectId \in storeProjects)
  /\ [][(/\ pending # << >>
          /\ pending[1].kind = "deleteProject"
          /\ pending' = Tail1(pending)
          /\ showModal'
          /\ modalMessage' = "Failed to delete project. Please try again.")
         => (storeProjects' = storeProjects /\ storeEntries' = storeEntries)]_vars

\* The confirmed deletion of a project is reading the time entries, and a
\* clock-in on that project, made after the confirmation, is in flight with
\* its entry written.
C25_Witness ==
  /\ Len(pending) = 2
  /\ pending[1].kind = "deleteProject"
  /\ pending[2].kind = "clockIn"
  /\ pending[2].applied
  /\ pending[2].id \in DOMAIN storeEntries
  /\ storeEntries[pending[2].id].projectId = pending[1].projectId

\* C26: whenever userId is null and no user is signed in, userProfile is null
\* as well, in every interleaving of sign-in, sign-out and the profile read
\* and creation of the auth state listener.
C26_NoProfileWithoutUser ==
  (userId = NoUser /\ authUser = NoUser) => userProfile = NoProfile

\* C27: once the auth state has been reported and the callbacks of the
\* listener have run to their end, the application has left the loading
\* state (isAuthReady is true), also when the profile read or the write of
\* the blank profile was rejected.
C27_LoadingEnds ==
  listenerTasks = << >> => isAuthReady

\* C28: when the effect of ProjectDetail runs with the selected date cleared,
\* as Show All Entries leaves it, the view settles with the list of every
\* time entry of the project, latest clock-in first: that list is set and no
\* further run of the effect replaces it.
C28_ShowAllEntriesListsAll ==
  [][(/\ currentView = "detail"
      /\ currentView' = "detail"
      /\ selectedFilterDate = NULL
      /\ filteredTimeEntries' # filteredTimeEntries \/ selectedFilterDate' # NULL)
     => (/\ filteredTimeEntries' =
              SortedByClockInDesc(allTimeEntries',
                                  ProjectEntryIds(allTimeEntries', selectedProjectId'))
         /\ ~EffectDue')]_vars

\* C29: an error message raised through the modal becomes visible: whenever
\* nothing is in flight and showModal is set, the modal is on screen; in
\* particular the configuration error raised at start-up is displayed and
\* not hidden behind the loading screen.
C29_RaisedMessageIsDisplayed ==
  (Idle /\ showModal) => ModalDisplayed

\* The entries of project q.
EntriesOfProject(entries, q) == [e \in ProjectEntryIds(entries, q) |-> entries[e]]

\* C30: the clock state is independent per project.  A clock-in or clock-out
\* request issued in the view of a project leaves the stored entries of
\* every other project, and so the open entries its clock status is derived
\* from, as they were;
\* the continuation of a request whose view has been left does not touch the
\* clock state of the view now shown; and when a clock-in is rejected, the
\* entry the view holds as its open entry is not an entry of another project.
C30_ClockStatePerProject ==
  [][/\ (Issued("clockIn") \/ Issued("clockOut"))
          => \A q \in Projects \ {selectedProjectId} :
               /\ EntriesOfProject(storeEntries', q) = EntriesOfProject(storeEntries, q)
               /\ OpenEntryIds(storeEntries', q) = OpenEntryIds(storeEntries, q)
     /\ (/\ pending # << >>
         /\ pending[1].kind \in {"clockIn", "clockOut"}
         /\ ~pending[1].live
         /\ pending' = Tail1(pending))
          => UNCHANGED clockVars
     /\ Raised("You are already clocked in for this project.")
          => /\ currentEntryId \in DOMAIN storeEntries
                  => storeEntries[currentEntryId].projectId = selectedProjectId
             /\ currentEntryId \in DOMAIN allTimeEntries
                  => allTimeEntries[currentEntryId].projectId = selectedProjectId]_vars

\* C30 witness: the view of a project holds the open entry of that project
\* while another project has an open entry in the store as well, and a
\* further clock-in has just been rejected.
C30_Witness ==
  /\ currentView = "detail"
  /\ showModal
  /\ modalMessage = "You are already clocked in for this project."
  /\ currentEntryId \in OpenEntryIds(storeEntries, selectedProjectId)
  /\ \E q \in Projects \ {selectedProjectId} : OpenEntryIds(storeEntries, q) # {}

====
